---------------------------- MODULE Spec2Model ----------------------------
(***************************************************************************)
(* Model of the energy-intel ingestion and enrichment pipeline:            *)
(*   - the fire-and-acknowledge orchestrator (app/api/orchestrator),       *)
(*   - runIngestion with its three dedup stages and the upsert,            *)
(*   - image enrichment (orchestrator task 2 and /api/enrich-images),      *)
(*   - the finance archiver (orchestrator task 3),                         *)
(*   - the job_runs heartbeat row.                                         *)
(*                                                                         *)
(* Texts (titles, guids, links) are sequences of one-character strings so  *)
(* that trim() and toLowerCase() are computed, not assumed.  The sha256    *)
(* digest is modelled as an injective tagging of its input (collisions of  *)
(* the 16 hex digits that are kept are not modelled).                      *)
(***************************************************************************)
EXTENDS Integers, Sequences, FiniteSets, TLC

(***************************************************************************)
(* Bounds of the model.                                                    *)
(***************************************************************************)
MaxRuns == 2            \* accepted triggers per behaviour
MaxFinanceSeed == 8     \* finance rows the store may hold initially
MaxFaults == 1          \* failed store or platform calls per behaviour
MaxBatch == 2           \* articles in a batch handed to a function applied on its own
MaxBacklog == 16        \* articles without an image the store may hold before a stage

(***************************************************************************)
(* Program constants.                                                      *)
(***************************************************************************)
ENRICH_LIMIT == 15      \* orchestrator: const limit = 15
KEEP_FINANCE == 6       \* orchestrator: .limit(6) of the archive stage
FALLBACK_MAX == 200     \* getFallbackSummary: maxLength
ELLIPSIS_LEN == 3       \* getFallbackSummary: maxLength - 3
JOB_TIME_LIMIT_MS == 25000  \* synchronous orchestrator: the time budget of a run
SYNC_ENRICH_LIMIT == 3  \* synchronous orchestrator: .limit(3) of the image query

(***************************************************************************)
(* Generic helpers.                                                        *)
(***************************************************************************)
Range(s) == {s[i] : i \in 1..Len(s)}

RECURSIVE SeqFilter(_, _)
\* Array.prototype.filter with membership of the element's index in keep
SeqFilter(s, keep) ==
    IF s = <<>> THEN <<>>
    ELSE LET rest == SeqFilter(Tail(s), {i - 1 : i \in keep \ {1}})
         IN IF 1 \in keep THEN <<Head(s)>> \o rest ELSE rest

RECURSIVE SumSeq(_)
SumSeq(ns) == IF ns = <<>> THEN 0 ELSE Head(ns) + SumSeq(Tail(ns))

RECURSIVE Flatten(_)
Flatten(ss) == IF ss = <<>> THEN <<>> ELSE Head(ss) \o Flatten(Tail(ss))

(***************************************************************************)
(* Strings.                                                                *)
(***************************************************************************)
IsSpace(c) == c = " "

RECURSIVE TrimLeft(_)
TrimLeft(s) == IF s # <<>> /\ IsSpace(Head(s)) THEN TrimLeft(Tail(s)) ELSE s

RECURSIVE TrimRight(_)
TrimRight(s) ==
    IF s # <<>> /\ IsSpace(s[Len(s)]) THEN TrimRight(SubSeq(s, 1, Len(s) - 1)) ELSE s

\* String.prototype.trim
Trim(s) == TrimRight(TrimLeft(s))

UpperLetters == <<"A", "B", "C", "D", "E", "F", "G", "H", "I", "J", "K", "L", "M", "N",
                 "O", "P", "Q", "R", "S", "T", "U", "V", "W", "X", "Y", "Z">>
LowerLetters == <<"a", "b", "c", "d", "e", "f", "g", "h", "i", "j", "k", "l", "m", "n",
                 "o", "p", "q", "r", "s", "t", "u", "v", "w", "x", "y", "z">>

LowerChar(c) ==
    IF \E i \in 1..Len(UpperLetters) : UpperLetters[i] = c
    THEN LowerLetters[CHOOSE i \in 1..Len(UpperLetters) : UpperLetters[i] = c]
    ELSE c

\* String.prototype.toLowerCase
ToLower(s) == [i \in 1..Len(s) |-> LowerChar(s[i])]

\* article.title.toLowerCase().trim()
NormTitle(t) == Trim(ToLower(t))

\* createHash('sha256').update(s).digest('hex').slice(0, 16)
Sha16(s) == <<"#">> \o s


(***************************************************************************)
(* Values of the platform.                                                 *)
(***************************************************************************)
Null == "<null>"              \* JavaScript null (an absent header, a NULL column)
Undefined == "<undefined>"    \* JavaScript undefined (an unset environment variable)
NoText == <<>>                \* an absent or empty text field of a feed item

(***************************************************************************)
(* The feed registry (lib/feeds.ts): name, enabled flag, article type.     *)
(***************************************************************************)
FEED_SOURCES ==
    << [name |-> "EIA",   enabled |-> TRUE,  articleType |-> Undefined],
       [name |-> "FERC",  enabled |-> FALSE, articleType |-> Undefined],
       [name |-> "Yahoo", enabled |-> TRUE,  articleType |-> "finance"] >>

\* FEED_SOURCES.filter((feed) => feed.enabled)
getEnabledFeeds ==
    SeqFilter(FEED_SOURCES, {i \in 1..Len(FEED_SOURCES) : FEED_SOURCES[i].enabled})

(***************************************************************************)
(* Raw feed items the sources may publish.  I1 and I2 carry the same title *)
(* up to case, I4 carries I1's guid up to surrounding blanks, I3 has no    *)
(* guid, I5 has no link.                                                   *)
(***************************************************************************)
I1 == [guid |-> <<"g", "1">>, link |-> <<"l", "1">>, title |-> <<"G", "a">>, isoDate |-> 11]
I2 == [guid |-> <<"g", "2">>, link |-> <<"l", "2">>, title |-> <<"g", "A", " ">>, isoDate |-> 12]
I3 == [guid |-> NoText, link |-> <<"l", "3">>, title |-> <<"S", "o">>, isoDate |-> 13]
I4 == [guid |-> <<" ", "g", "1">>, link |-> <<"l", "4">>, title |-> <<"W", "i">>, isoDate |-> 14]
I5 == [guid |-> <<"g", "5">>, link |-> <<" ">>, title |-> <<"S", "o">>, isoDate |-> 15]

(***************************************************************************)
(* What one HTTP request for a feed can come back with.                    *)
(***************************************************************************)
NetworkError == [kind |-> "network", status |-> 0,   items |-> <<>>]
Timeout      == [kind |-> "timeout", status |-> 0,   items |-> <<>>]
Http403      == [kind |-> "http",    status |-> 403, items |-> <<>>]
HtmlBody     == [kind |-> "html",    status |-> 200, items |-> <<>>]
BadXml       == [kind |-> "badxml",  status |-> 200, items |-> <<>>]
FeedBody(items) == [kind |-> "rss", status |-> 200, items |-> items]

\* what each enabled feed may answer with: two ways of failing, or its current body
Responses(name) ==
    IF name = "EIA" THEN {Http403, HtmlBody, FeedBody(<<I1, I2, I5>>)}
                    ELSE {NetworkError, BadXml, FeedBody(<<I4, I3>>)}

(***************************************************************************)
(* lib/fetchFeed.ts                                                        *)
(***************************************************************************)
\* fetchFeed with the feed rejecting on a failed request (mutant)
fetchFeedThrowing(feed, response) ==
    IF response.kind = "rss"
    THEN [source |-> feed.name, items |-> response.items, error |-> Null]
    ELSE [source |-> feed.name, items |-> <<>>, error |-> "rejected"]

\* fetchFeed returning what was parsed before the parser gave up (mutant)
fetchFeedPartial(feed, response) ==
    IF response.kind = "rss"
    THEN [source |-> feed.name, items |-> response.items, error |-> Null]
    ELSE [source |-> feed.name,
          items |-> IF response.kind = "badxml" THEN <<I1>> ELSE <<>>,
          error |-> "Parse error"]

\* fetchFeed: every outcome of the request becomes a result, never an exception
fetchFeed(feed, response) ==
    CASE response.kind = "network" ->
            [source |-> feed.name, items |-> <<>>, error |-> "fetch failed"]
      [] response.kind = "timeout" ->
            [source |-> feed.name, items |-> <<>>, error |-> "The operation timed out"]
      [] response.kind = "http" ->
            [source |-> feed.name, items |-> <<>>, error |-> "HTTP error"]
      [] response.kind = "html" ->
            [source |-> feed.name, items |-> <<>>, error |-> "Response is HTML, not XML/RSS"]
      [] response.kind = "badxml" ->
            [source |-> feed.name, items |-> <<>>, error |-> "Parse error"]
      [] OTHER ->
            [source |-> feed.name, items |-> response.items, error |-> Null]

\* Promise.all(feeds.map(fetchFeed)): rejects as a whole when one promise rejects
PromiseAllRejected(results) == \E i \in 1..Len(results) : results[i].error = "rejected"

\* fetchAllFeeds: one result per feed, in the order of the feeds
fetchAllFeeds(feeds, responses) ==
    [i \in 1..Len(feeds) |-> fetchFeed(feeds[i], responses[i])]

\* getFetchStats
getFetchStats(results) ==
    [totalFeeds |-> Len(results),
     successfulFeeds |-> Cardinality({i \in 1..Len(results) : results[i].error = Null}),
     failedFeeds |-> Cardinality({i \in 1..Len(results) : results[i].error # Null}),
     errors |-> LET failed == SeqFilter(results,
                                        {i \in 1..Len(results) : results[i].error # Null})
                IN [i \in 1..Len(failed) |-> failed[i].source \o ": " \o failed[i].error]]

(***************************************************************************)
(* lib/normalizeFeedItem.ts                                                *)
(***************************************************************************)
\* item.pubDate || item.isoDate || '' (an item of the feeds above has no pubDate)
pubDateOrIsoDate(item) ==
    IF "pubDate" \in DOMAIN item /\ item.pubDate # NoText THEN item.pubDate
    ELSE <<ToString(item.isoDate)>>

\* generateArticleId with the link preferred to the guid (mutant)
generateArticleIdLinkFirst(item) ==
    IF Trim(item.link) # NoText THEN Sha16(Trim(item.link))
    ELSE IF Trim(item.guid) # NoText THEN Sha16(Trim(item.guid))
    ELSE Sha16(item.title \o <<":">> \o pubDateOrIsoDate(item))

\* generateArticleId: guid, else link, else title:date
generateArticleId(item) ==
    IF Trim(item.guid) # NoText THEN Sha16(Trim(item.guid))
    ELSE IF Trim(item.link) # NoText THEN Sha16(Trim(item.link))
    ELSE Sha16(item.title \o <<":">> \o pubDateOrIsoDate(item))

\* parsePublicationDate: isoDate is preferred
parsePublicationDate(item) == item.isoDate

\* normalizeFeedItem: <<article>>, or <<>> (null) for an item without title or link
normalizeFeedItem(item, source, articleType) ==
    IF Trim(item.title) = NoText \/ Trim(item.link) = NoText THEN <<>>
    ELSE << [id |-> generateArticleId(item),
             title |-> Trim(item.title),
             link |-> Trim(item.link),
             pub_date |-> parsePublicationDate(item),
             source |-> source,
             article_type |-> IF articleType = Undefined THEN "policy" ELSE articleType] >>

\* normalizeFeedItems: map, then drop the nulls
normalizeFeedItems(items, source, articleType) ==
    Flatten([i \in 1..Len(items) |-> normalizeFeedItem(items[i], source, articleType)])

(***************************************************************************)
(* lib/categorize.ts                                                       *)
(***************************************************************************)
STRONG_WEIGHT == 3      \* points of a strong keyword
KEYWORD_WEIGHT == 1     \* points of a regular keyword
MIN_SCORE == 1          \* least score that assigns a non-default category

\* CATEGORY_PATTERNS in its order, with some of the keywords of each list
CATEGORY_PATTERNS ==
    << [category |-> "LNG",
        strongKeywords |-> << <<"l", "n", "g">> >>,
        keywords |-> << <<"f", "l", "n", "g">> >>],
       [category |-> "Renewable Energy",
        strongKeywords |-> << <<"w", "i", "n", "d", " ", "f", "a", "r", "m">> >>,
        keywords |-> << <<"w", "i", "n", "d">> >>],
       [category |-> "Emissions",
        strongKeywords |-> << <<"n", "e", "t", " ", "z", "e", "r", "o">> >>,
        keywords |-> << <<"c", "o", "2">> >>],
       [category |-> "Infrastructure",
        strongKeywords |-> << <<"h", "v", "d", "c">> >>,
        keywords |-> << <<"g", "r", "i", "d">>,
                        <<"m", "i", "s", "o">>,
                        <<"i", "s", "o">> >>],
       [category |-> "Energy Policy",
        strongKeywords |-> << <<"e", "n", "e", "r", "g", "y", " ", "a", "c", "t">> >>,
        keywords |-> << <<"a", "c", "t">> >>] >>

\* the ArticleCategory type
ArticleCategory == {"LNG", "Renewable Energy", "Emissions", "Infrastructure", "Energy Policy"}

\* String.prototype.includes
Includes(text, keyword) ==
    \E i \in 1..(Len(text) - Len(keyword) + 1) :
        SubSeq(text, i, i + Len(keyword) - 1) = keyword

\* calculateCategoryScore
calculateCategoryScore(text, patterns) ==
    LET lowerText == ToLower(text)
        strong == {i \in 1..Len(patterns.strongKeywords) :
                      Includes(lowerText, ToLower(patterns.strongKeywords[i]))}
        regular == {i \in 1..Len(patterns.keywords) :
                       Includes(lowerText, ToLower(patterns.keywords[i]))}
    IN STRONG_WEIGHT * Cardinality(strong) + KEYWORD_WEIGHT * Cardinality(regular)

RECURSIVE SortByScoreDesc(_)
\* Array.prototype.sort((a, b) => b.score - a.score): stable, so entries of equal
\* score keep their order
SortByScoreDesc(scores) ==
    IF scores = <<>> THEN <<>>
    ELSE LET init == SortByScoreDesc(SubSeq(scores, 1, Len(scores) - 1))
             e == scores[Len(scores)]
             k == Cardinality({i \in 1..Len(init) : init[i].score >= e.score})
         IN SubSeq(init, 1, k) \o <<e>> \o SubSeq(init, k + 1, Len(init))

RECURSIVE SortByScoreDescUnstable(_)
\* a sort that puts the later of two entries of equal score first
SortByScoreDescUnstable(scores) ==
    IF scores = <<>> THEN <<>>
    ELSE LET init == SortByScoreDescUnstable(SubSeq(scores, 1, Len(scores) - 1))
             e == scores[Len(scores)]
             k == Cardinality({i \in 1..Len(init) : init[i].score > e.score})
         IN SubSeq(init, 1, k) \o <<e>> \o SubSeq(init, k + 1, Len(init))

\* the text categorizeArticle scores: the title twice, then the content
categorizeText(title, content) ==
    title \o <<" ">> \o title \o <<" ">> \o (IF content = Undefined THEN <<>> ELSE content)

\* the scores array before the sort
categoryScores(title, content) ==
    [i \in 1..Len(CATEGORY_PATTERNS) |->
        [category |-> CATEGORY_PATTERNS[i].category,
         score |-> calculateCategoryScore(categorizeText(title, content),
                                          CATEGORY_PATTERNS[i])]]

\* categorizeArticle with the unstable sort (mutant)
categorizeArticleUnstable(title, content) ==
    LET bestMatch == SortByScoreDescUnstable(categoryScores(title, content))[1]
    IN IF bestMatch.score >= MIN_SCORE THEN bestMatch.category ELSE "Energy Policy"

\* categorizeArticle
categorizeArticle(title, content) ==
    LET bestMatch == SortByScoreDesc(categoryScores(title, content))[1]
    IN IF bestMatch.score >= MIN_SCORE THEN bestMatch.category ELSE "Energy Policy"

(***************************************************************************)
(* lib/summarize.ts                                                        *)
(***************************************************************************)
AI_SUMMARY == <<"A", "I">>    \* the text the generation service answers with

\* getFallbackSummary: the title, cut to 197 characters plus "..." beyond 200
getFallbackSummary(title) ==
    IF Len(title) <= FALLBACK_MAX THEN title
    ELSE SubSeq(title, 1, FALLBACK_MAX - ELLIPSIS_LEN) \o <<".", ".", ".">>

(***************************************************************************)
(* lib/db.ts: the articles table is a function from the ids present to     *)
(* rows; image_url and is_archived take their column defaults on insert.   *)
(***************************************************************************)
RowOf(a) ==
    [title |-> a.title, link |-> a.link, pub_date |-> a.pub_date, source |-> a.source,
     summary |-> a.summary, article_type |-> a.article_type,
     image_url |-> Null, is_archived |-> FALSE]

RECURSIVE UpsertMerging(_, _)
\* upsert without ignoreDuplicates: ON CONFLICT (id) DO UPDATE of the given columns (mutant)
UpsertMerging(st, articles) ==
    IF articles = <<>> THEN st
    ELSE LET a == Head(articles)
             row == IF a.id \in DOMAIN st
                    THEN [RowOf(a) EXCEPT !.image_url = st[a.id].image_url,
                                          !.is_archived = st[a.id].is_archived]
                    ELSE RowOf(a)
         IN UpsertMerging([id \in DOMAIN st \cup {a.id} |-> IF id = a.id THEN row ELSE st[id]],
                          Tail(articles))

RECURSIVE UpsertIgnoreDuplicates(_, _)
\* upsert(articles, {onConflict: 'id', ignoreDuplicates: true}): ON CONFLICT (id) DO NOTHING
UpsertIgnoreDuplicates(st, articles) ==
    IF articles = <<>> THEN st
    ELSE LET a == Head(articles)
         IN UpsertIgnoreDuplicates(
                IF a.id \in DOMAIN st THEN st
                ELSE [id \in DOMAIN st \cup {a.id} |-> IF id = a.id THEN RowOf(a) ELSE st[id]],
                Tail(articles))

\* insertArticles over a plain upsert, whose .select() returns every submitted row (mutant)
insertArticlesCountingAll(st, articles, outcome) ==
    IF articles = <<>> THEN [store |-> st, inserted |-> 0, errors |-> <<>>]
    ELSE IF outcome = "error"
         THEN [store |-> st, inserted |-> 0, errors |-> <<"Database error">>]
    ELSE [store |-> UpsertIgnoreDuplicates(st, articles),
          inserted |-> Cardinality({a.id : a \in Range(articles)}),
          errors |-> <<>>]

\* insertArticles that does not report the error of a failed write (mutant)
insertArticlesSilent(st, articles, outcome) ==
    IF articles = <<>> \/ outcome = "error" THEN [store |-> st, inserted |-> 0, errors |-> <<>>]
    ELSE LET after == UpsertIgnoreDuplicates(st, articles)
         IN [store |-> after,
             inserted |-> Cardinality(DOMAIN after \ DOMAIN st),
             errors |-> <<>>]

\* insertArticles: the table afterwards, the rows returned by .select(), the errors
insertArticles(st, articles, outcome) ==
    IF articles = <<>> THEN [store |-> st, inserted |-> 0, errors |-> <<>>]
    ELSE IF outcome = "error"
         THEN [store |-> st, inserted |-> 0, errors |-> <<"Database error">>]
    ELSE LET after == UpsertIgnoreDuplicates(st, articles)
         IN [store |-> after,
             inserted |-> Cardinality(DOMAIN after \ DOMAIN st),
             errors |-> <<>>]

\* getExistingArticleIds: the ids among `ids` that are present; the empty set on a query error
getExistingArticleIds(st, ids, outcome) ==
    IF ids = {} \/ outcome = "error" THEN {} ELSE ids \cap DOMAIN st

\* getExistingArticleTitles: the normalized titles among `titles` that some row carries
getExistingArticleTitles(st, titles) ==
    {NormTitle(t) : t \in titles} \cap {NormTitle(st[id].title) : id \in DOMAIN st}

(***************************************************************************)
(* lib/ingest.ts: the pure parts of runIngestion.                          *)
(***************************************************************************)
\* validateArticle: every required field is non-blank
validateArticle(a) ==
    /\ a.id # NoText
    /\ Trim(a.title) # NoText
    /\ Trim(a.link) # NoText
    /\ a.source # ""

\* result.articleType: a FetchFeedResult has no such field
resultArticleType(result) == Undefined

\* processFeedResult: the valid articles of one feed result and the number skipped
processFeedResult(result) ==
    IF result.error # Null THEN [articles |-> <<>>, skipped |-> 0]
    ELSE LET normalized == normalizeFeedItems(result.items, result.source,
                                              resultArticleType(result))
             valid == {i \in 1..Len(normalized) : validateArticle(normalized[i])}
         IN [articles |-> SeqFilter(normalized, valid),
             skipped |-> Len(normalized) - Cardinality(valid)]

\* the loop over fetchResults: allPartialArticles
collectArticles(results) ==
    Flatten([i \in 1..Len(results) |-> processFeedResult(results[i]).articles])

\* step 1 keeping the last occurrence of a title instead of the first (mutant)
batchDedupKeepLast(articles) ==
    SeqFilter(articles,
        {i \in 1..Len(articles) :
            \A j \in (i + 1)..Len(articles) :
                NormTitle(articles[j].title) # NormTitle(articles[i].title)})

\* step 1: drop an article whose normalized title was seen earlier in the batch
batchDedup(articles) ==
    SeqFilter(articles,
        {i \in 1..Len(articles) :
            \A j \in 1..(i - 1) :
                NormTitle(articles[j].title) # NormTitle(articles[i].title)})

\* step 2: drop the articles whose id exists
idDedup(articles, existingIds) ==
    SeqFilter(articles, {i \in 1..Len(articles) : articles[i].id \notin existingIds})

\* step 3: drop the articles whose normalized title exists
titleDedup(articles, existingTitles) ==
    SeqFilter(articles,
        {i \in 1..Len(articles) : NormTitle(articles[i].title) \notin existingTitles})

\* toArticleInsert
toArticleInsert(a, summary) ==
    [id |-> a.id, title |-> a.title, link |-> a.link, pub_date |-> a.pub_date,
     source |-> a.source, summary |-> summary,
     article_type |-> IF a.article_type = Undefined THEN "policy" ELSE a.article_type]

\* the insert list built from the new articles only (mutant)
buildInsertsOfNew(allPartial, newArticles, summaryMap) ==
    [i \in 1..Len(newArticles) |->
        toArticleInsert(newArticles[i],
            IF newArticles[i].id \in DOMAIN summaryMap THEN summaryMap[newArticles[i].id]
            ELSE getFallbackSummary(newArticles[i].title))]

\* allArticles: every partial article, with its summary from the map or the fallback
buildInserts(allPartial, newArticles, summaryMap) ==
    [i \in 1..Len(allPartial) |->
        toArticleInsert(allPartial[i],
            IF allPartial[i].id \in DOMAIN summaryMap THEN summaryMap[allPartial[i].id]
            ELSE getFallbackSummary(allPartial[i].title))]

(***************************************************************************)
(* lib/getArticles.ts: image extraction.  A page is given by the           *)
(* candidates its markup offers to the seven strategies, in the order the  *)
(* patterns of a strategy are tried.                                       *)
(***************************************************************************)
STRATEGIES == 7     \* og:image, twitter:image, image_src, JSON-LD, featured class,
                    \* content container, any img

skipPatterns ==
    << <<"f", "a", "v", "i", "c", "o", "n">>,
       <<"l", "o", "g", "o">>,
       <<"i", "c", "o", "n">>,
       <<"s", "p", "r", "i", "t", "e">>,
       <<"p", "i", "x", "e", "l">>,
       <<"t", "r", "a", "c", "k", "i", "n", "g">>,
       <<"a", "n", "a", "l", "y", "t", "i", "c", "s">>,
       <<"b", "a", "d", "g", "e">>,
       <<"b", "u", "t", "t", "o", "n">>,
       <<"1", "x", "1">>,
       <<"s", "p", "a", "c", "e", "r">>,
       <<"b", "l", "a", "n", "k">>,
       <<"t", "r", "a", "n", "s", "p", "a", "r", "e", "n", "t">>,
       <<"a", "v", "a", "t", "a", "r">>,
       <<"p", "r", "o", "f", "i", "l", "e">>,
       <<"a", "u", "t", "h", "o", "r">>,
       <<"g", "r", "a", "v", "a", "t", "a", "r">>,
       <<".", "g", "i", "f">> >>

imageExtensions ==
    << <<".", "j", "p", "g">>,
       <<".", "j", "p", "e", "g">>,
       <<".", "p", "n", "g">>,
       <<".", "w", "e", "b", "p">>,
       <<".", "a", "v", "i", "f">> >>

imagePaths ==
    << <<"/", "i", "m", "a", "g", "e">>,
       <<"/", "i", "m", "g">>,
       <<"/", "p", "h", "o", "t", "o">>,
       <<"/", "m", "e", "d", "i", "a">>,
       <<"/", "u", "p", "l", "o", "a", "d", "s">>,
       <<"/", "w", "p", "-", "c", "o", "n", "t", "e", "n", "t">> >>

\* isLikelyGoodImage
isLikelyGoodImage(url) ==
    LET lowerUrl == ToLower(url)
    IN /\ \A i \in 1..Len(skipPatterns) : ~Includes(lowerUrl, skipPatterns[i])
       /\ \/ \E i \in 1..Len(imageExtensions) : Includes(lowerUrl, imageExtensions[i])
          \/ \E i \in 1..Len(imagePaths) : Includes(lowerUrl, imagePaths[i])

\* String.prototype.startsWith
StartsWith(s, prefix) == Len(s) >= Len(prefix) /\ SubSeq(s, 1, Len(prefix)) = prefix

\* the positions of character c in s
PositionsOf(s, c) == {i \in 1..Len(s) : s[i] = c}

\* the scheme of a URL text with its colon, or <<>> for a text without a scheme
SchemeOf(url) ==
    LET colons == {i \in PositionsOf(url, ":") :
                      i > 1 /\ \A j \in 1..(i - 1) : url[j] \notin {"/", ".", "?", "#"}}
    IN IF colons = {} THEN <<>>
       ELSE SubSeq(url, 1, CHOOSE i \in colons : \A j \in colons : i <= j)

\* scheme://host of an absolute URL
OriginOf(url) ==
    LET start == Len(SchemeOf(url)) + 3
        slashes == {i \in PositionsOf(url, "/") : i >= start}
    IN IF slashes = {} THEN url
       ELSE SubSeq(url, 1, (CHOOSE i \in slashes : \A j \in slashes : i <= j) - 1)

\* the URL without its last path segment
DirectoryOf(url) ==
    LET slashes == {i \in PositionsOf(url, "/") : i > Len(OriginOf(url))}
    IN IF slashes = {} THEN OriginOf(url) \o <<"/">>
       ELSE SubSeq(url, 1, CHOOSE i \in slashes : \A j \in slashes : i >= j)

\* new URL(rawUrl, baseUrl).href for a base that is an http(s) URL (host case and
\* percent-encoding left as they are)
ResolveAgainst(rawUrl, baseUrl) ==
    IF SchemeOf(rawUrl) # <<>> THEN rawUrl
    ELSE IF StartsWith(rawUrl, <<"/", "/">>) THEN SchemeOf(baseUrl) \o rawUrl
    ELSE IF StartsWith(rawUrl, <<"/">>) THEN OriginOf(baseUrl) \o rawUrl
    ELSE DirectoryOf(baseUrl) \o rawUrl

\* resolveImageUrl: the absolute http(s) URL, or Null
resolveImageUrl(rawUrl, baseUrl) ==
    IF StartsWith(rawUrl, <<"d", "a", "t", "a", ":">>) THEN Null
    ELSE LET resolved == ResolveAgainst(rawUrl, baseUrl)
         IN IF SchemeOf(resolved) \notin {<<"h", "t", "t", "p", ":">>, <<"h", "t", "t", "p", "s", ":">>}
            THEN Null
            ELSE resolved

\* `resolved && isLikelyGoodImage(resolved)`
Accepted(rawUrl, baseUrl) ==
    /\ resolveImageUrl(rawUrl, baseUrl) # Null
    /\ isLikelyGoodImage(resolveImageUrl(rawUrl, baseUrl))

\* the candidates of one strategy, in the order its patterns are tried
CandidatesOf(page, strategy) ==
    LET hits == SeqFilter(page, {i \in 1..Len(page) : page[i].strategy = strategy})
    IN [i \in 1..Len(hits) |-> hits[i].url]

RECURSIVE FirstAccepted(_, _)
\* the loop of one strategy: the first candidate that resolves and passes the filter
FirstAccepted(candidates, baseUrl) ==
    IF candidates = <<>> THEN Null
    ELSE IF Accepted(Head(candidates), baseUrl)
         THEN resolveImageUrl(Head(candidates), baseUrl)
         ELSE FirstAccepted(Tail(candidates), baseUrl)

RECURSIVE cascadeFrom(_, _, _)
\* strategies `strategy`..STRATEGIES in order, returning at the first accepted candidate
cascadeFrom(page, baseUrl, strategy) ==
    IF strategy > STRATEGIES THEN Null
    ELSE LET found == FirstAccepted(CandidatesOf(page, strategy), baseUrl)
         IN IF found # Null THEN found ELSE cascadeFrom(page, baseUrl, strategy + 1)

\* the cascade giving up at a strategy whose candidate is rejected (mutant)
extractImageFirstCandidateOnly(page, baseUrl) ==
    IF page = <<>> THEN Null
    ELSE LET strategy == CHOOSE k \in 1..STRATEGIES :
                             /\ CandidatesOf(page, k) # <<>>
                             /\ \A j \in 1..(k - 1) : CandidatesOf(page, j) = <<>>
         IN FirstAccepted(CandidatesOf(page, strategy), baseUrl)

\* extractImageFromHtml
extractImageFromHtml(page, baseUrl) == cascadeFrom(page, baseUrl, 1)

(***************************************************************************)
(* Queries of the enrichment and archive stages.                           *)
(***************************************************************************)
NullImageIds(st) == {id \in DOMAIN st : st[id].image_url = Null}

RECURSIVE TopByDate(_, _, _)
\* the orderings `ORDER BY pub_date DESC LIMIT n` may return for the rows `ids`
\* (rows of equal pub_date come in any order)
TopByDate(st, ids, n) ==
    IF n = 0 \/ ids = {} THEN {<<>>}
    ELSE LET latest == {x \in ids : \A y \in ids : st[x].pub_date >= st[y].pub_date}
         IN UNION {{<<x>> \o q : q \in TopByDate(st, ids \ {x}, n - 1)} : x \in latest}

\* the enrichment query without the image_url filter (mutant)
selectForEnrichmentAll(st) == TopByDate(st, DOMAIN st, ENRICH_LIMIT)

\* the enrichment query without its limit (mutant)
selectForEnrichmentUnbounded(st) ==
    TopByDate(st, NullImageIds(st), Cardinality(NullImageIds(st)))

\* .is('image_url', null).order('pub_date', desc).limit(15)
selectForEnrichment(st) == TopByDate(st, NullImageIds(st), ENRICH_LIMIT)

\* the synchronous orchestrator's query: .is('image_url', null).order(...).limit(3)
selectForEnrichmentSync(st) == TopByDate(st, NullImageIds(st), SYNC_ENRICH_LIMIT)

\* .update({ image_url: imageUrl }).eq('id', id)
updateImage(st, id, imageUrl) ==
    [x \in DOMAIN st |-> IF x = id THEN [st[x] EXCEPT !.image_url = imageUrl] ELSE st[x]]

ActiveFinance(st) ==
    {id \in DOMAIN st : st[id].article_type = "finance" /\ ~st[id].is_archived}

\* the keep query reading the oldest rows instead of the most recent (mutant)
recentFinanceOldest(st) ==
    LET ids == ActiveFinance(st)
        m == IF Cardinality(ids) < KEEP_FINANCE THEN Cardinality(ids) ELSE KEEP_FINANCE
    IN {K \in SUBSET ids :
          /\ Cardinality(K) = m
          /\ \A a \in K : \A b \in ids \ K : st[a].pub_date <= st[b].pub_date}

\* article_type = finance, is_archived = false, order by pub_date desc, limit 6
recentFinance(st) == {Range(q) : q \in TopByDate(st, ActiveFinance(st), KEEP_FINANCE)}

\* archiving by deleting the row (mutant)
archiveByDelete(st, id) == [x \in DOMAIN st \ {id} |-> st[x]]

\* .update({ is_archived: true }).eq('id', id)
archiveArticle(st, id) ==
    [x \in DOMAIN st |-> IF x = id THEN [st[x] EXCEPT !.is_archived = TRUE] ELSE st[x]]

(***************************************************************************)
(* Trigger authentication (the first lines of every GET handler).          *)
(***************************************************************************)
Secret == "s3cr3t"

\* `Bearer ${expectedSecret}`: an unset secret prints as "undefined"
bearer(expected) == IF expected = Undefined THEN "Bearer undefined" ELSE "Bearer " \o expected

CronHeaders == {Null, Secret, "wrong"}
AuthHeaders == {Null, bearer(Secret), bearer(Undefined), "Bearer wrong"}
Environments == {Secret, Undefined}        \* process.env.CRON_SECRET

\* the check with == in place of ===, so that null equals undefined (mutant)
isAuthorizedLoose(cronSecret, authHeader, expectedSecret) ==
    LET same == cronSecret = expectedSecret
                \/ (cronSecret = Null /\ expectedSecret = Undefined)
    IN ~(~same /\ ~(authHeader = bearer(expectedSecret)))

\* !(cronSecret !== expectedSecret && !isVercelCron)
isAuthorized(cronSecret, authHeader, expectedSecret) ==
    ~(cronSecret # expectedSecret /\ ~(authHeader = bearer(expectedSecret)))

(***************************************************************************)
(* State.                                                                  *)
(***************************************************************************)
VARIABLES
    store,      \* the articles table: id -> row
    jobRun,     \* the job_runs row of job_name 'orchestrator'
    run,        \* per invocation slot: the handler's and background task's locals
    lastReq,    \* the trigger request whose secret was checked last
    nRuns,      \* accepted triggers so far
    faults,     \* failed store or platform calls so far
    probe,      \* a function applied on its own: its name, input and result
    summarizeCalls  \* the ids of the articles the text-generation service was called for

vars == <<store, jobRun, run, lastReq, nRuns, faults, probe, summarizeCalls>>

Slots == {"a", "b"}

\* no request at hand (a handler does not look at its request after the check)
NoRequest == [cron |-> Null, auth |-> Null, expected |-> Undefined, status |-> 0]

\* no function is being applied on its own
NoProbe == [fn |-> "none", input |-> <<>>, out |-> <<>>]

NoJobRun ==
    [status |-> "none", ran_at |-> 0, articles_inserted |-> 0, articles_updated |-> 0,
     images_enriched |-> 0, error_message |-> Null]

NoStats ==
    [attempted |-> 0, inserted |-> 0, duplicates |-> 0, dbErrors |-> 0, skipped |-> 0,
     totalSources |-> 0, successfulSources |-> 0, failedSources |-> 0, errors |-> <<>>,
     summarizationAttempted |-> 0]

NoPrev == [has |-> FALSE, clean |-> FALSE, inserted |-> 0, duplicates |-> 0]

IdleRun ==
    [pc |-> "idle", kind |-> "none", ranAt |-> 0, resp |-> 0,
     writes |-> <<>>, stages |-> <<>>,
     responses |-> <<>>, fetchResults |-> <<>>, allPartial |-> <<>>, batchDeduped |-> <<>>,
     afterIdDedup |-> <<>>, newArticles |-> <<>>, allArticles |-> <<>>,
     stats |-> NoStats, ingested |-> FALSE, clean |-> TRUE, prev |-> NoPrev,
     articlesInserted |-> 0, articlesDuplicates |-> 0,
     imagesEnriched |-> 0, imagesFailed |-> 0, toEnrich |-> <<>>,
     activeAtRead |-> 0, keepIds |-> {}, toArchive |-> {}, financeArchived |-> 0,
     archiveClean |-> TRUE, revalidated |-> FALSE, errorMessage |-> Null,
     elapsed |-> 0, tasksCompleted |-> <<>>]

(***************************************************************************)
(* The store before the first trigger: k finance rows written earlier.     *)
(* Row 1 carries the id of feed items I1 and I4, row 3 the title of I3;    *)
(* publish dates come in pairs, so that the archiver meets ties.           *)
(***************************************************************************)
SeedId(i) == IF i = 1 THEN Sha16(<<"g", "1">>) ELSE Sha16(<<"f", ToString(i)>>)

SeedRow(i) ==
    [title |-> IF i = 3 THEN <<"S", "o">> ELSE <<"F", ToString(i)>>,
     link |-> <<"k", ToString(i)>>, pub_date |-> i \div 2, source |-> "Yahoo",
     summary |-> AI_SUMMARY, article_type |-> "finance",
     image_url |-> "u0", is_archived |-> FALSE]

SeedStore(k) ==
    [id \in {SeedId(i) : i \in 1..k} |-> SeedRow(CHOOSE i \in 1..k : SeedId(i) = id)]

SeedCounts == {0, MaxFinanceSeed}

Init ==
    /\ \E k \in SeedCounts : store = SeedStore(k)
    /\ jobRun = NoJobRun
    /\ run = [s \in Slots |-> IdleRun]
    /\ lastReq = NoRequest
    /\ nRuns = 0
    /\ faults = 0
    /\ probe = NoProbe
    /\ summarizeCalls = {}

(***************************************************************************)
(* Failing calls: a call to the store or the platform may fail while the   *)
(* behaviour has failures left.                                            *)
(***************************************************************************)
Outcomes(kinds) == IF faults < MaxFaults THEN kinds ELSE {"ok"}

Spend(outcome) == faults' = IF outcome = "ok" THEN faults ELSE faults + 1

(***************************************************************************)
(* recordJobRun: upsert of the heartbeat row; a failed write is logged     *)
(* and swallowed.                                                          *)
(***************************************************************************)
\* the record without the partial counts and the message (mutant)
jobRunRecordBare(r, status) ==
    [status |-> status, ran_at |-> r.ranAt,
     articles_inserted |-> 0, articles_updated |-> 0,
     images_enriched |-> 0, error_message |-> Null]

jobRunRecord(r, status) ==
    [status |-> status, ran_at |-> r.ranAt,
     articles_inserted |-> r.articlesInserted, articles_updated |-> r.articlesDuplicates,
     images_enriched |-> r.imagesEnriched, error_message |-> r.errorMessage]

recordJobRun(row, record, outcome) == IF outcome = "ok" THEN record ELSE row

SetRun(s, r) == run' = [run EXCEPT ![s] = r]

\* what the next invocation remembers of the last completed runIngestion
PrevOf(old) ==
    IF old.ingested
    THEN [has |-> TRUE, clean |-> old.clean,
          inserted |-> old.stats.inserted, duplicates |-> old.stats.duplicates]
    ELSE old.prev

\* an invocation whose function has returned: its locals are gone
Settled(r) ==
    [IdleRun EXCEPT !.pc = "done", !.kind = r.kind, !.ranAt = r.ranAt, !.resp = r.resp,
                    !.writes = r.writes, !.stages = r.stages,
                    !.tasksCompleted = r.tasksCompleted,
                    !.errorMessage = r.errorMessage, !.prev = PrevOf(r)]

Finished(r) == r.pc \in {"idle", "done"}

(***************************************************************************)
(* The trigger handlers: authentication.                                   *)
(***************************************************************************)
\* GET: the secret does not match: 401, nothing else happens
GETUnauthorized ==
    \E cron \in CronHeaders, auth \in AuthHeaders, expected \in Environments :
        /\ ~isAuthorized(cron, auth, expected)
        /\ lastReq' = [cron |-> cron, auth |-> auth, expected |-> expected, status |-> 401]
        /\ UNCHANGED <<store, jobRun, run, nRuns, faults, probe, summarizeCalls>>

\* GET of /api/orchestrator or /api/enrich-images: the secret matches, the handler goes on
GETAuthorized(s) ==
    /\ Finished(run[s])
    /\ nRuns < MaxRuns
    /\ \E cron \in CronHeaders, auth \in AuthHeaders, expected \in Environments :
        /\ isAuthorized(cron, auth, expected)
        /\ lastReq' = [cron |-> cron, auth |-> auth, expected |-> expected, status |-> 0]
    /\ nRuns' = nRuns + 1
    /\ \E kind \in {"orchestrator", "enrich-images"} :
        SetRun(s, [IdleRun EXCEPT
                     !.pc = IF kind = "orchestrator" THEN "started" ELSE "ei_select",
                     !.kind = kind, !.ranAt = nRuns + 1, !.prev = PrevOf(run[s])])
    /\ UNCHANGED <<store, jobRun, faults, probe, summarizeCalls>>

\* await recordJobRun({status: 'started', ...})
GETRecordStarted(s) ==
    /\ run[s].pc = "started"
    /\ \E outcome \in Outcomes({"ok", "error"}) :
        /\ jobRun' = recordJobRun(jobRun, jobRunRecord(run[s], "started"), outcome)
        /\ Spend(outcome)
    /\ SetRun(s, [run[s] EXCEPT !.pc = "spawn", !.writes = Append(@, "started")])
    /\ lastReq' = NoRequest
    /\ UNCHANGED <<store, nRuns, probe, summarizeCalls>>

\* waitUntil(runOrchestratorTasks(ranAt, host)); return 200: the task runs up to its
\* first await (the feed requests of runIngestion are issued), then the handler returns
GETAcknowledge(s) ==
    /\ run[s].pc = "spawn"
    /\ SetRun(s, [run[s] EXCEPT !.pc = "fetch", !.resp = 200,
                                !.stages = Append(@, "ingest")])
    /\ UNCHANGED <<store, jobRun, lastReq, nRuns, faults, probe, summarizeCalls>>

(***************************************************************************)
(* runIngestion.                                                           *)
(***************************************************************************)
ResponseVectors(feeds) ==
    {q \in [1..Len(feeds) -> UNION {Responses(feeds[i].name) : i \in 1..Len(feeds)}] :
        \A i \in 1..Len(feeds) : q[i] \in Responses(feeds[i].name)}

Failed(s, message) == [run[s] EXCEPT !.pc = "catch", !.errorMessage = message]

\* lines 347-420: fetch every enabled feed, process the results, dedup within the batch
IngestFetch(s) ==
    /\ run[s].pc = "fetch"
    /\ \E responses \in ResponseVectors(getEnabledFeeds) :
        LET feeds == getEnabledFeeds
            results == fetchAllFeeds(feeds, responses)
            fetchStats == getFetchStats(results)
            allPartial == collectArticles(results)
            skipped == SumSeq([i \in 1..Len(results) |-> processFeedResult(results[i]).skipped])
        IN IF PromiseAllRejected(results)
           THEN SetRun(s, Failed(s, "fetch rejected"))
           ELSE SetRun(s, [run[s] EXCEPT
                    !.pc = "ids",
                    !.responses = responses,
                    !.fetchResults = results,
                    !.allPartial = allPartial,
                    !.batchDeduped = batchDedup(allPartial),
                    !.clean = \A i \in 1..Len(responses) : responses[i].kind = "rss",
                    !.stats = [@ EXCEPT !.totalSources = Len(feeds),
                                        !.successfulSources = fetchStats.successfulFeeds,
                                        !.failedSources = fetchStats.failedFeeds,
                                        !.skipped = skipped,
                                        !.errors = fetchStats.errors]])
    /\ UNCHANGED <<store, jobRun, lastReq, nRuns, faults, probe, summarizeCalls>>

\* lines 422-427: getExistingArticleIds and the id filter
IngestCheckIds(s) ==
    /\ run[s].pc = "ids"
    /\ LET ids == {a.id : a \in Range(run[s].batchDeduped)}
       IN \E outcome \in IF ids = {} THEN {"ok"} ELSE Outcomes({"ok", "error", "throw"}) :
            /\ Spend(outcome)
            /\ IF outcome = "throw"
               THEN SetRun(s, Failed(s, "getExistingArticleIds threw"))
               ELSE SetRun(s, [run[s] EXCEPT
                        !.pc = "titles",
                        !.afterIdDedup = idDedup(run[s].batchDeduped,
                                                 getExistingArticleIds(store, ids, outcome)),
                        !.clean = @ /\ outcome = "ok"])
    /\ UNCHANGED <<store, jobRun, lastReq, nRuns, probe, summarizeCalls>>

\* lines 429-445: getExistingArticleTitles and the title filter
IngestCheckTitles(s) ==
    /\ run[s].pc = "titles"
    /\ LET titles == {a.title : a \in Range(run[s].afterIdDedup)}
           existingTitles == getExistingArticleTitles(store, titles)
       IN SetRun(s, [run[s] EXCEPT
                !.pc = "summarize",
                !.newArticles = titleDedup(run[s].afterIdDedup, existingTitles)])
    /\ UNCHANGED <<store, jobRun, lastReq, nRuns, faults, probe, summarizeCalls>>

\* summaryMap after the loop over newArticles: a later set() for the same id wins
SummaryMapOf(newArticles, succeeded) ==
    [id \in {a.id : a \in Range(newArticles)} |->
        LET last == CHOOSE i \in 1..Len(newArticles) :
                        /\ newArticles[i].id = id
                        /\ \A j \in (i + 1)..Len(newArticles) : newArticles[j].id # id
        IN IF last \in succeeded THEN AI_SUMMARY
           ELSE getFallbackSummary(newArticles[last].title)]

\* lines 447-488: summarize the new articles (or fall back), then build allArticles
IngestSummarize(s) ==
    /\ run[s].pc = "summarize"
    /\ \E enabled \in BOOLEAN, succeeded \in SUBSET (1..Len(run[s].newArticles)) :
        /\ ~enabled => succeeded = {}
        /\ LET summaryMap == SummaryMapOf(run[s].newArticles, succeeded)
               failed == IF enabled THEN (1..Len(run[s].newArticles)) \ succeeded ELSE {}
           IN /\ SetRun(s, [run[s] EXCEPT
                    !.pc = "insert",
                    !.stats = [@ EXCEPT
                        !.summarizationAttempted =
                            IF enabled THEN Len(run[s].newArticles) ELSE 0,
                        !.errors =
                            @ \o [i \in 1..Cardinality(failed) |-> "Summarization failed"]],
                    !.allArticles = buildInserts(run[s].allPartial, run[s].newArticles,
                                                 summaryMap)])
              /\ summarizeCalls' =
                    IF enabled THEN summarizeCalls \cup {a.id : a \in Range(run[s].newArticles)}
                    ELSE summarizeCalls
    /\ UNCHANGED <<store, jobRun, lastReq, nRuns, faults, probe>>

\* lines 490-557 and the orchestrator's lines 85-98: insert, count, return the stats;
\* the orchestrator keeps the counts and goes on to the enrichment query (the
\* synchronous orchestrator, lines 436-443: to the time check of its task 2)
IngestInsert(s) ==
    /\ run[s].pc = "insert"
    /\ LET all == run[s].allArticles
       IN \E outcome \in IF all = <<>> THEN {"ok"} ELSE Outcomes({"ok", "error", "throw"}) :
            LET res == insertArticles(store, all, outcome)
                dup == IF Len(res.errors) = 0 THEN Len(all) - res.inserted ELSE 0
                err == IF Len(res.errors) = 0 THEN 0 ELSE Len(all) - res.inserted
            IN /\ Spend(outcome)
               /\ IF outcome = "throw"
                  THEN /\ SetRun(s, Failed(s, "insertArticles threw"))
                       /\ store' = store
                  ELSE /\ store' = res.store
                       /\ SetRun(s, [run[s] EXCEPT
                                !.pc = IF run[s].kind = "sync" THEN "s_images"
                                       ELSE "enrich_select",
                                !.stages = IF run[s].kind = "sync" THEN @
                                           ELSE Append(@, "enrich"),
                                !.tasksCompleted = IF run[s].kind = "sync"
                                                   THEN Append(@, "ingestion") ELSE @,
                                !.ingested = TRUE,
                                !.clean = @ /\ outcome = "ok",
                                !.responses = <<>>, !.fetchResults = <<>>,
                                !.allPartial = <<>>, !.batchDeduped = <<>>,
                                !.afterIdDedup = <<>>, !.newArticles = <<>>,
                                !.allArticles = <<>>,
                                !.stats = [@ EXCEPT !.attempted = Len(all),
                                                    !.inserted = res.inserted,
                                                    !.duplicates = dup,
                                                    !.dbErrors = err,
                                                    !.errors = @ \o res.errors],
                                !.articlesInserted = res.inserted,
                                !.articlesDuplicates = dup])
    /\ UNCHANGED <<jobRun, lastReq, nRuns, probe, summarizeCalls>>

(***************************************************************************)
(* Orchestrator task 2: image enrichment.                                  *)
(***************************************************************************)
\* scrapeArticleImage: no image, or the image the page shows at the time of the run
ScrapeResults(r) == {Null, "u" \o ToString(r.ranAt)}

\* the enrichment stage handing over to cache invalidation, the archive stage left for
\* later (mutant)
ToArchiveStageSwapped(r) == [r EXCEPT !.pc = "invalidate",
                                      !.stages = Append(@, "invalidate"),
                                      !.toEnrich = <<>>]

ToArchiveStage(r) == [r EXCEPT !.pc = "archive_recent", !.stages = Append(@, "archive"),
                               !.toEnrich = <<>>]

\* lines 98-112: the query for articles without an image
EnrichSelect(s) ==
    /\ run[s].pc = "enrich_select"
    /\ \E outcome \in Outcomes({"ok", "error", "throw"}), q \in selectForEnrichment(store) :
        /\ Spend(outcome)
        /\ IF outcome = "throw" THEN SetRun(s, Failed(s, "getSupabase threw"))
           ELSE IF outcome = "error" \/ q = <<>> THEN SetRun(s, ToArchiveStage(run[s]))
           ELSE SetRun(s, [run[s] EXCEPT !.pc = "enrich_item", !.toEnrich = q])
    /\ UNCHANGED <<store, jobRun, lastReq, nRuns, probe, summarizeCalls>>

\* lines 113-134: one iteration of the loop: scrape, update, count
EnrichItem(s) ==
    /\ run[s].pc = "enrich_item"
    /\ \E imageUrl \in ScrapeResults(run[s]) :
        \E update \in IF imageUrl = Null THEN {"ok"} ELSE Outcomes({"ok", "error"}) :
            LET id == Head(run[s].toEnrich)
                rest == Tail(run[s].toEnrich)
                done == imageUrl # Null /\ update = "ok"
                r == [run[s] EXCEPT !.toEnrich = rest,
                                    !.imagesEnriched = IF done THEN @ + 1 ELSE @,
                                    !.imagesFailed = IF done THEN @ ELSE @ + 1]
            IN /\ Spend(update)
               /\ store' = IF done THEN updateImage(store, id, imageUrl) ELSE store
               /\ SetRun(s, IF rest = <<>> THEN ToArchiveStage(r) ELSE r)
    /\ UNCHANGED <<jobRun, lastReq, nRuns, probe, summarizeCalls>>

(***************************************************************************)
(* /api/enrich-images: the enrichment stage as an endpoint of its own.     *)
(***************************************************************************)
Respond(r, status) == Settled([r EXCEPT !.resp = status])

\* lines 385-417: the query for articles without an image
EnrichImagesSelect(s) ==
    /\ run[s].pc = "ei_select"
    /\ \E outcome \in Outcomes({"ok", "error", "throw"}), q \in selectForEnrichment(store) :
        /\ Spend(outcome)
        /\ IF outcome # "ok" THEN SetRun(s, Respond(run[s], 500))
           ELSE IF q = <<>> THEN SetRun(s, Respond(run[s], 200))
           ELSE SetRun(s, [run[s] EXCEPT !.pc = "ei_item", !.toEnrich = q])
    /\ lastReq' = NoRequest
    /\ UNCHANGED <<store, jobRun, nRuns, probe, summarizeCalls>>

\* lines 431-475: one iteration of the loop, and the response after the last one
EnrichImagesItem(s) ==
    /\ run[s].pc = "ei_item"
    /\ \E imageUrl \in ScrapeResults(run[s]) :
        \E update \in IF imageUrl = Null THEN {"ok"} ELSE Outcomes({"ok", "error"}) :
            LET id == Head(run[s].toEnrich)
                rest == Tail(run[s].toEnrich)
                done == imageUrl # Null /\ update = "ok"
                r == [run[s] EXCEPT !.toEnrich = rest,
                                    !.imagesEnriched = IF done THEN @ + 1 ELSE @,
                                    !.imagesFailed = IF done THEN @ ELSE @ + 1]
            IN /\ Spend(update)
               /\ store' = IF done THEN updateImage(store, id, imageUrl) ELSE store
               /\ SetRun(s, IF rest = <<>> THEN Respond(r, 200) ELSE r)
    /\ UNCHANGED <<jobRun, lastReq, nRuns, probe, summarizeCalls>>

(***************************************************************************)
(* Orchestrator task 3: archive all but the 6 most recent finance rows.    *)
(***************************************************************************)
ToInvalidate(r) == [r EXCEPT !.pc = "invalidate", !.stages = Append(@, "invalidate"),
                             !.toArchive = {}, !.keepIds = {}]

\* lines 147-160: the ids to keep; an exception here is caught by the stage's own try
ArchiveRecent(s) ==
    /\ run[s].pc = "archive_recent"
    /\ \E outcome \in Outcomes({"ok", "error", "throw"}), keep \in recentFinance(store) :
        /\ Spend(outcome)
        /\ IF outcome = "ok" /\ keep # {}
           THEN SetRun(s, [run[s] EXCEPT !.pc = "archive_all", !.keepIds = keep,
                               !.activeAtRead = Cardinality(ActiveFinance(store))])
           ELSE SetRun(s, ToInvalidate([run[s] EXCEPT
                               !.activeAtRead = Cardinality(ActiveFinance(store)),
                               !.archiveClean = (outcome = "ok")]))
    /\ UNCHANGED <<store, jobRun, lastReq, nRuns, probe, summarizeCalls>>

\* lines 163-178: every non-archived finance id that is not kept
ArchiveAll(s) ==
    /\ run[s].pc = "archive_all"
    /\ \E outcome \in Outcomes({"ok", "error"}) :
        LET idsToArchive == ActiveFinance(store) \ run[s].keepIds
        IN /\ Spend(outcome)
           /\ IF outcome = "ok" /\ idsToArchive # {}
              THEN SetRun(s, [run[s] EXCEPT !.pc = "archive_item",
                                            !.toArchive = idsToArchive])
              ELSE SetRun(s, ToInvalidate([run[s] EXCEPT
                               !.archiveClean = (outcome = "ok")]))
    /\ UNCHANGED <<store, jobRun, lastReq, nRuns, probe, summarizeCalls>>

\* lines 180-191: one iteration of the loop: archive one id, count it unless it failed
ArchiveItem(s) ==
    /\ run[s].pc = "archive_item"
    /\ \E id \in run[s].toArchive, outcome \in Outcomes({"ok", "error"}) :
        LET rest == run[s].toArchive \ {id}
            r == [run[s] EXCEPT !.toArchive = rest,
                                !.financeArchived = IF outcome = "ok" THEN @ + 1 ELSE @,
                                !.archiveClean = @ /\ outcome = "ok"]
        IN /\ Spend(outcome)
           /\ store' = IF outcome = "ok" THEN archiveArticle(store, id) ELSE store
           /\ SetRun(s, IF rest = {} THEN ToInvalidate(r) ELSE r)
    /\ UNCHANGED <<jobRun, lastReq, nRuns, probe, summarizeCalls>>

(***************************************************************************)
(* Orchestrator task 4 and the terminal heartbeat writes.                  *)
(***************************************************************************)
\* lines 205-213: revalidatePath; an exception is caught and logged
Invalidate(s) ==
    /\ run[s].pc = "invalidate"
    /\ \E outcome \in Outcomes({"ok", "throw"}) :
        /\ Spend(outcome)
        /\ SetRun(s, [run[s] EXCEPT !.pc = "success", !.revalidated = (outcome = "ok")])
    /\ UNCHANGED <<store, jobRun, lastReq, nRuns, probe, summarizeCalls>>

\* the catch block without its recordJobRun (mutant)
RecordErrorSkipped(s) ==
    /\ run[s].pc = "catch"
    /\ FALSE
    /\ UNCHANGED vars

\* the success write with a recordJobRun that rethrows: a failed write lands in catch (mutant)
RecordSuccessRethrowing(s) ==
    /\ run[s].pc = "success"
    /\ \E outcome \in Outcomes({"ok", "error"}) :
        /\ jobRun' = recordJobRun(jobRun, jobRunRecord(run[s], "success"), outcome)
        /\ Spend(outcome)
        /\ SetRun(s, IF outcome = "ok"
                     THEN Settled([run[s] EXCEPT !.writes = Append(@, "success")])
                     ELSE [run[s] EXCEPT !.pc = "catch", !.writes = Append(@, "success")])
    /\ UNCHANGED <<store, lastReq, nRuns, probe, summarizeCalls>>

\* lines 230-240: await recordJobRun({status: 'success', ...})
RecordSuccess(s) ==
    /\ run[s].pc = "success"
    /\ \E outcome \in Outcomes({"ok", "error"}) :
        /\ jobRun' = recordJobRun(jobRun, jobRunRecord(run[s], "success"), outcome)
        /\ Spend(outcome)
    /\ SetRun(s, Settled([run[s] EXCEPT !.writes = Append(@, "success")]))
    /\ UNCHANGED <<store, lastReq, nRuns, probe, summarizeCalls>>

\* the catch block that returns without its recordJobRun (mutant)
RecordErrorSilent(s) ==
    /\ run[s].pc = "catch"
    /\ SetRun(s, Settled(run[s]))
    /\ UNCHANGED <<store, jobRun, lastReq, nRuns, faults, probe, summarizeCalls>>

\* lines 242-258: the catch block: await recordJobRun({status: 'error', ...}); the
\* synchronous orchestrator (lines 542-563) answers 500 after the write, with a body
\* that has no task list
RecordError(s) ==
    /\ run[s].pc = "catch"
    /\ \E outcome \in Outcomes({"ok", "error"}) :
        /\ jobRun' = recordJobRun(jobRun, jobRunRecord(run[s], "error"), outcome)
        /\ Spend(outcome)
    /\ SetRun(s, Settled([run[s] EXCEPT !.writes = Append(@, "error"),
                                        !.resp = IF run[s].kind = "sync" THEN 500 ELSE @,
                                        !.tasksCompleted = <<>>]))
    /\ UNCHANGED <<store, lastReq, nRuns, probe, summarizeCalls>>

(***************************************************************************)
(* Specifications.  Spec runs the invocations one at a time (the single    *)
(* logical writer the design assumes); a rejected request touches nothing, *)
(* so it is only taken between invocations.  FairSpec follows the accepted *)
(* triggers and adds that a started invocation keeps being scheduled       *)
(* (waitUntil keeps the background task alive until it settles).           *)
(***************************************************************************)
OneAtATime == \A t \in Slots : Finished(run[t])

Step(s) ==
    \/ GETRecordStarted(s)
    \/ GETAcknowledge(s)
    \/ IngestFetch(s)
    \/ IngestCheckIds(s)
    \/ IngestCheckTitles(s)
    \/ IngestSummarize(s)
    \/ IngestInsert(s)
    \/ EnrichSelect(s)
    \/ EnrichItem(s)
    \/ EnrichImagesSelect(s)
    \/ EnrichImagesItem(s)
    \/ ArchiveRecent(s)
    \/ ArchiveAll(s)
    \/ ArchiveItem(s)
    \/ Invalidate(s)
    \/ RecordSuccess(s)
    \/ RecordError(s)

Next ==
    \/ (OneAtATime /\ GETUnauthorized)
    \/ (OneAtATime /\ GETAuthorized("a"))
    \/ \E s \in Slots : Step(s)

Spec == Init /\ [][Next]_vars

NextAccepted ==
    \/ (OneAtATime /\ GETAuthorized("a"))
    \/ \E s \in Slots : Step(s)

FairSpec == Init /\ [][NextAccepted]_vars /\ \A s \in Slots : WF_vars(Step(s))

(***************************************************************************)
(* Overlapping invocations.  Nothing locks the trigger: a second request   *)
(* can be accepted while the task of the first is still running, and the   *)
(* two runIngestion executions interleave at every await.  OverlapSpec     *)
(* follows two such invocations up to the return of runIngestion.          *)
(***************************************************************************)
IngestStep(s) ==
    \/ GETRecordStarted(s)
    \/ GETAcknowledge(s)
    \/ IngestFetch(s)
    \/ IngestCheckIds(s)
    \/ IngestCheckTitles(s)
    \/ IngestSummarize(s)
    \/ IngestInsert(s)

OverlapNext ==
    \/ GETAuthorized("a")
    \/ (run["a"].pc # "idle" /\ GETAuthorized("b"))
    \/ \E s \in Slots : IngestStep(s)

OverlapSpec == Init /\ [][OverlapNext]_vars

(***************************************************************************)
(* The synchronous orchestrator: the same four tasks run inside the        *)
(* request, each lower-priority task and each loop iteration guarded by    *)
(* the time budget.  Date.now() - startTime is kept in run[s].elapsed; what *)
(* has been awaited since the last reading took one of Durations.          *)
(***************************************************************************)
Durations == {0, 12500}

\* Date.now() - startTime at a reading (the clock is not followed past the budget)
Now(r) == {r.elapsed + d : d \in IF r.elapsed > JOB_TIME_LIMIT_MS THEN {0} ELSE Durations}

\* the check that is never true (mutant)
isTimeLimitExceededNever(elapsed) == FALSE

\* isTimeLimitExceeded: Date.now() - startTime > JOB_TIME_LIMIT_MS
isTimeLimitExceeded(elapsed) == elapsed > JOB_TIME_LIMIT_MS

\* lines 411-426: the secret matches, the handler goes on (no `started` write)
GETSyncAuthorized(s) ==
    /\ Finished(run[s])
    /\ nRuns < MaxRuns
    /\ \E cron \in CronHeaders, auth \in AuthHeaders, expected \in Environments :
        /\ isAuthorized(cron, auth, expected)
        /\ lastReq' = [cron |-> cron, auth |-> auth, expected |-> expected, status |-> 0]
    /\ nRuns' = nRuns + 1
    /\ SetRun(s, [IdleRun EXCEPT !.pc = "s_begin", !.kind = "sync", !.ranAt = nRuns + 1,
                                 !.prev = PrevOf(run[s])])
    /\ UNCHANGED <<store, jobRun, faults, probe, summarizeCalls>>

\* lines 428-436: the counters are initialised and runIngestion is called
SyncBegin(s) ==
    /\ run[s].pc = "s_begin"
    /\ SetRun(s, [run[s] EXCEPT !.pc = "fetch", !.stages = Append(@, "ingest")])
    /\ lastReq' = NoRequest
    /\ UNCHANGED <<store, jobRun, nRuns, faults, probe, summarizeCalls>>

\* tasksCompleted.push(task) at the end of a task, then on to the next
TaskDone(r, task, pc) == [r EXCEPT !.pc = pc, !.tasksCompleted = Append(@, task),
                                   !.toEnrich = <<>>, !.toArchive = {}, !.keepIds = {}]

\* lines 443-455: task 2 if time permits: the query for up to 3 articles without image
SyncImagesSelect(s) ==
    /\ run[s].pc = "s_images"
    /\ \E now \in Now(run[s]) :
        IF isTimeLimitExceeded(now)
        THEN /\ SetRun(s, [run[s] EXCEPT !.pc = "s_archive", !.elapsed = now])
             /\ faults' = faults
        ELSE \E outcome \in Outcomes({"ok", "error", "throw"}),
                q \in selectForEnrichmentSync(store) :
                LET r == [run[s] EXCEPT !.elapsed = now, !.stages = Append(@, "enrich")]
                IN /\ Spend(outcome)
                   /\ IF outcome = "throw"
                      THEN SetRun(s, [r EXCEPT !.pc = "catch",
                                               !.errorMessage = "getSupabase threw"])
                      ELSE IF outcome = "error" \/ q = <<>>
                      THEN SetRun(s, TaskDone(r, "images", "s_archive"))
                      ELSE SetRun(s, [r EXCEPT !.pc = "s_image_item", !.toEnrich = q])
    /\ UNCHANGED <<store, jobRun, lastReq, nRuns, probe, summarizeCalls>>

\* lines 456-467: one iteration of the loop: stop when out of time, else scrape and
\* update; the result of the update is not looked at
SyncImageItem(s) ==
    /\ run[s].pc = "s_image_item"
    /\ \E now \in Now(run[s]) :
        IF isTimeLimitExceeded(now)
        THEN /\ SetRun(s, TaskDone([run[s] EXCEPT !.elapsed = now], "images", "s_archive"))
             /\ UNCHANGED <<store, faults>>
        ELSE \E imageUrl \in ScrapeResults(run[s]) :
              \E update \in IF imageUrl = Null THEN {"ok"} ELSE Outcomes({"ok", "error"}) :
                LET id == Head(run[s].toEnrich)
                    rest == Tail(run[s].toEnrich)
                    r == [run[s] EXCEPT !.elapsed = now, !.toEnrich = rest,
                                        !.imagesEnriched =
                                            IF imageUrl # Null THEN @ + 1 ELSE @]
                IN /\ Spend(update)
                   /\ store' = IF imageUrl # Null /\ update = "ok"
                               THEN updateImage(store, id, imageUrl) ELSE store
                   /\ SetRun(s, IF rest = <<>> THEN TaskDone(r, "images", "s_archive")
                                ELSE r)
    /\ UNCHANGED <<jobRun, lastReq, nRuns, probe, summarizeCalls>>

\* lines 471-483: task 3 if time permits: the ids to keep; the task has no try of its
\* own, so an exception lands in the handler's catch
SyncArchiveRecent(s) ==
    /\ run[s].pc = "s_archive"
    /\ \E now \in Now(run[s]) :
        IF isTimeLimitExceeded(now)
        THEN /\ SetRun(s, [run[s] EXCEPT !.pc = "s_revalidate", !.elapsed = now])
             /\ faults' = faults
        ELSE \E outcome \in Outcomes({"ok", "error", "throw"}),
                keep \in recentFinance(store) :
                LET r == [run[s] EXCEPT !.elapsed = now, !.stages = Append(@, "archive"),
                                        !.activeAtRead = Cardinality(ActiveFinance(store))]
                IN /\ Spend(outcome)
                   /\ IF outcome = "throw"
                      THEN SetRun(s, [r EXCEPT !.pc = "catch",
                                               !.errorMessage = "getSupabase threw"])
                      ELSE IF outcome = "ok" /\ keep # {}
                      THEN SetRun(s, [r EXCEPT !.pc = "s_archive_all", !.keepIds = keep])
                      ELSE SetRun(s, TaskDone(r, "archive", "s_revalidate"))
    /\ UNCHANGED <<store, jobRun, lastReq, nRuns, probe, summarizeCalls>>

\* lines 484-493: every non-archived finance id that is not kept
SyncArchiveAll(s) ==
    /\ run[s].pc = "s_archive_all"
    /\ \E outcome \in Outcomes({"ok", "error"}) :
        LET toArchive == ActiveFinance(store) \ run[s].keepIds
        IN /\ Spend(outcome)
           /\ IF outcome = "ok" /\ toArchive # {}
              THEN SetRun(s, [run[s] EXCEPT !.pc = "s_archive_item",
                                            !.toArchive = toArchive])
              ELSE SetRun(s, TaskDone(run[s], "archive", "s_revalidate"))
    /\ UNCHANGED <<store, jobRun, lastReq, nRuns, probe, summarizeCalls>>

\* lines 494-500: one iteration of the loop: stop when out of time, else archive one
\* id; the result of the update is not looked at
SyncArchiveItem(s) ==
    /\ run[s].pc = "s_archive_item"
    /\ \E now \in Now(run[s]) :
        IF isTimeLimitExceeded(now)
        THEN /\ SetRun(s, TaskDone([run[s] EXCEPT !.elapsed = now], "archive",
                                   "s_revalidate"))
             /\ UNCHANGED <<store, faults>>
        ELSE \E id \in run[s].toArchive, outcome \in Outcomes({"ok", "error"}) :
                LET rest == run[s].toArchive \ {id}
                    r == [run[s] EXCEPT !.elapsed = now, !.toArchive = rest]
                IN /\ Spend(outcome)
                   /\ store' = IF outcome = "ok" THEN archiveArticle(store, id) ELSE store
                   /\ SetRun(s, IF rest = {} THEN TaskDone(r, "archive", "s_revalidate")
                                ELSE r)
    /\ UNCHANGED <<jobRun, lastReq, nRuns, probe, summarizeCalls>>

\* lines 504-513: task 4 if time permits; an exception is caught and the task is not
\* pushed
SyncRevalidate(s) ==
    /\ run[s].pc = "s_revalidate"
    /\ \E now \in Now(run[s]) :
        IF isTimeLimitExceeded(now)
        THEN /\ SetRun(s, [run[s] EXCEPT !.pc = "s_success", !.elapsed = now])
             /\ faults' = faults
        ELSE \E outcome \in Outcomes({"ok", "throw"}) :
                LET r == [run[s] EXCEPT !.elapsed = now, !.stages = Append(@, "invalidate"),
                                        !.revalidated = (outcome = "ok")]
                IN /\ Spend(outcome)
                   /\ SetRun(s, IF outcome = "ok" THEN TaskDone(r, "revalidate", "s_success")
                                ELSE [r EXCEPT !.pc = "s_success"])
    /\ UNCHANGED <<store, jobRun, lastReq, nRuns, probe, summarizeCalls>>

\* lines 515-540: await recordJobRun({status: 'success', ...}), then the 200 response
\* with tasksCompleted
SyncRecordSuccess(s) ==
    /\ run[s].pc = "s_success"
    /\ \E outcome \in Outcomes({"ok", "error"}) :
        /\ jobRun' = recordJobRun(jobRun, jobRunRecord(run[s], "success"), outcome)
        /\ Spend(outcome)
    /\ SetRun(s, Settled([run[s] EXCEPT !.writes = Append(@, "success"), !.resp = 200]))
    /\ UNCHANGED <<store, lastReq, nRuns, probe, summarizeCalls>>

SyncStep(s) ==
    \/ SyncBegin(s)
    \/ IngestFetch(s)
    \/ IngestCheckIds(s)
    \/ IngestCheckTitles(s)
    \/ IngestSummarize(s)
    \/ IngestInsert(s)
    \/ SyncImagesSelect(s)
    \/ SyncImageItem(s)
    \/ SyncArchiveRecent(s)
    \/ SyncArchiveAll(s)
    \/ SyncArchiveItem(s)
    \/ SyncRevalidate(s)
    \/ SyncRecordSuccess(s)
    \/ RecordError(s)

SyncNext ==
    \/ (OneAtATime /\ GETSyncAuthorized("a"))
    \/ SyncStep("a")

\* the deployment whose orchestrator route is the synchronous one, followed through its
\* accepted triggers
SyncSpec == Init /\ [][SyncNext]_vars

\* the accepted triggers of either orchestrator route (and of /api/enrich-images)
EitherNext == NextAccepted \/ SyncNext

EitherSpec == Init /\ [][EitherNext]_vars

(***************************************************************************)
(* The enrichment stage over a backlog.  EnrichSpec starts where task 2 of *)
(* a background run starts (ingestion has returned with nothing new) with  *)
(* a store that holds up to MaxBacklog articles without an image, more     *)
(* than one stage takes, and one article that has its image.               *)
(***************************************************************************)
BacklogId(i) == Sha16(<<"n", ToString(i)>>)

\* the two oldest articles of the backlog share their publish date
BacklogRow(i) ==
    [title |-> <<"N", ToString(i)>>, link |-> <<"k", ToString(i)>>,
     pub_date |-> IF i = 1 THEN 2 ELSE i, source |-> "EIA",
     summary |-> AI_SUMMARY, article_type |-> "policy",
     image_url |-> IF i = 0 THEN "u0" ELSE Null, is_archived |-> FALSE]

BacklogStore(n) ==
    [id \in {BacklogId(i) : i \in 0..n} |-> BacklogRow(CHOOSE i \in 0..n : BacklogId(i) = id)]

Backlogs == {0, 1, MaxBacklog - 1, MaxBacklog}

EnrichInit ==
    /\ \E n \in Backlogs : store = BacklogStore(n)
    /\ jobRun = jobRunRecord([IdleRun EXCEPT !.ranAt = 1], "started")
    /\ run = [s \in Slots |->
                IF s = "a"
                THEN [IdleRun EXCEPT !.pc = "enrich_select", !.kind = "orchestrator",
                                     !.ranAt = 1, !.resp = 200, !.writes = <<"started">>,
                                     !.stages = <<"ingest", "enrich">>, !.ingested = TRUE]
                ELSE IdleRun]
    /\ lastReq = NoRequest
    /\ nRuns = 1
    /\ faults = 0
    /\ probe = NoProbe
    /\ summarizeCalls = {}

EnrichNext == EnrichSelect("a") \/ EnrichItem("a")

EnrichSpec == EnrichInit /\ [][EnrichNext]_vars

(***************************************************************************)
(* The heartbeat row under overlapping runs.  HeartbeatSpec accepts a      *)
(* second trigger while the first run is anywhere between its acceptance   *)
(* and its return, and lets the heartbeat writes of the two runs happen in *)
(* every order.  The row is written by GETRecordStarted, RecordSuccess and *)
(* RecordError only, so the stages in between are taken by one run at a    *)
(* time: a run works on the store while the other one is parked at a       *)
(* heartbeat write or outside its task.  The heartbeat writes succeed.     *)
(***************************************************************************)
Parked(r) == r.pc \in {"idle", "done", "started", "spawn", "success", "catch"}

Other(s) == CHOOSE t \in Slots : t # s

\* a step in which no store or platform call fails
CallsSucceed == faults' = faults

HeartbeatWrite(s) ==
    \/ (GETRecordStarted(s) /\ CallsSucceed)
    \/ (RecordSuccess(s) /\ CallsSucceed)
    \/ (RecordError(s) /\ CallsSucceed)

StageStep(s) ==
    \/ GETAcknowledge(s)
    \/ IngestFetch(s)
    \/ IngestCheckIds(s)
    \/ IngestCheckTitles(s)
    \/ IngestSummarize(s)
    \/ IngestInsert(s)
    \/ EnrichSelect(s)
    \/ EnrichItem(s)
    \/ EnrichImagesSelect(s)
    \/ EnrichImagesItem(s)
    \/ ArchiveRecent(s)
    \/ ArchiveAll(s)
    \/ ArchiveItem(s)
    \/ Invalidate(s)

HeartbeatNext ==
    \/ GETAuthorized("a")
    \/ (run["a"].pc # "idle" /\ GETAuthorized("b"))
    \/ \E s \in Slots : HeartbeatWrite(s)
    \/ \E s \in Slots : Parked(run[Other(s)]) /\ StageStep(s)

HeartbeatSpec == Init /\ [][HeartbeatNext]_vars

(***************************************************************************)
(* Enrichment over many runs.  StarveSpec starts like EnrichSpec and keeps *)
(* triggering the orchestrator: every run that has settled is followed by  *)
(* another one (the clock is read modulo MaxRuns, so that the runs can go  *)
(* on for ever), the feeds bring no article, and the pages of all but the  *)
(* two oldest articles of the backlog show no image, whenever they are     *)
(* scraped.  The store holds no finance article, so the archive stage ends *)
(* at its first read.  A triggered run keeps being scheduled, and a        *)
(* trigger keeps coming.                                                   *)
(***************************************************************************)
StarveBacklogs == {MaxBacklog - 1, MaxBacklog + 1}

\* the articles whose page has no og:image, twitter:image or content image
NoImagePages == {BacklogId(i) : i \in 3..(MaxBacklog + 1)}

StarveInit ==
    /\ \E n \in StarveBacklogs : store = BacklogStore(n)
    /\ jobRun = jobRunRecord([IdleRun EXCEPT !.ranAt = 1], "started")
    /\ run = [s \in Slots |->
                IF s = "a"
                THEN [IdleRun EXCEPT !.pc = "enrich_select", !.kind = "orchestrator",
                                     !.ranAt = 1, !.resp = 200, !.writes = <<"started">>,
                                     !.stages = <<"ingest", "enrich">>, !.ingested = TRUE]
                ELSE IdleRun]
    /\ lastReq = NoRequest
    /\ nRuns = 1
    /\ faults = 0
    /\ probe = NoProbe
    /\ summarizeCalls = {}

\* an accepted GET /api/orchestrator after the run of this slot has settled
GETAgain(s) ==
    /\ run[s].pc = "done"
    /\ \E cron \in CronHeaders, auth \in AuthHeaders, expected \in Environments :
        /\ isAuthorized(cron, auth, expected)
        /\ lastReq' = [cron |-> cron, auth |-> auth, expected |-> expected, status |-> 0]
    /\ SetRun(s, [IdleRun EXCEPT !.pc = "started", !.kind = "orchestrator",
                                 !.ranAt = 1 + (run[s].ranAt % MaxRuns),
                                 !.prev = PrevOf(run[s])])
    /\ UNCHANGED <<store, jobRun, nRuns, faults, probe, summarizeCalls>>

\* the feeds bring nothing
NoArticlesArrive(s) == run'[s].pc = "ids" => run'[s].batchDeduped = <<>>

\* a page without an image yields no image
NoImageFound(s) == Head(run[s].toEnrich) \in NoImagePages => store' = store

StarveStep(s) ==
    \/ GETRecordStarted(s)
    \/ GETAcknowledge(s)
    \/ (IngestFetch(s) /\ NoArticlesArrive(s))
    \/ IngestCheckIds(s)
    \/ IngestCheckTitles(s)
    \/ IngestSummarize(s)
    \/ IngestInsert(s)
    \/ EnrichSelect(s)
    \/ (EnrichItem(s) /\ NoImageFound(s))
    \/ ArchiveRecent(s)
    \/ Invalidate(s)
    \/ RecordSuccess(s)
    \/ RecordError(s)

StarveNext == GETAgain("a") \/ StarveStep("a")

StarveSpec ==
    StarveInit /\ [][StarveNext]_vars /\ WF_vars(GETAgain("a")) /\ WF_vars(StarveStep("a"))

(***************************************************************************)
(* The archive stage next to another invocation.  ArchiveRaceSpec starts   *)
(* where task 3 of one background run starts, the finance segment holding  *)
(* more than it keeps, while a second accepted run is either at its own    *)
(* task 3 or has just issued its feed requests; the two interleave at      *)
(* every await up to the end of their archive stages.                      *)
(***************************************************************************)
AtArchiveStage(ranAt) ==
    [IdleRun EXCEPT !.pc = "archive_recent", !.kind = "orchestrator", !.ranAt = ranAt,
                    !.resp = 200, !.writes = <<"started">>,
                    !.stages = <<"ingest", "enrich", "archive">>, !.ingested = TRUE]

AtFetch(ranAt) ==
    [IdleRun EXCEPT !.pc = "fetch", !.kind = "orchestrator", !.ranAt = ranAt,
                    !.resp = 200, !.writes = <<"started">>, !.stages = <<"ingest">>]

ArchiveRaceInit ==
    /\ store = SeedStore(MaxFinanceSeed)
    /\ jobRun = jobRunRecord([IdleRun EXCEPT !.ranAt = 2], "started")
    /\ \E other \in {AtArchiveStage(2), AtFetch(2)} :
        run = [s \in Slots |-> IF s = "a" THEN AtArchiveStage(1) ELSE other]
    /\ lastReq = NoRequest
    /\ nRuns = 2
    /\ faults = 0
    /\ probe = NoProbe
    /\ summarizeCalls = {}

ArchiveRaceNext ==
    \E s \in Slots :
        \/ IngestFetch(s)
        \/ IngestCheckIds(s)
        \/ IngestCheckTitles(s)
        \/ IngestSummarize(s)
        \/ IngestInsert(s)
        \/ EnrichSelect(s)
        \/ EnrichItem(s)
        \/ ArchiveRecent(s)
        \/ ArchiveAll(s)
        \/ ArchiveItem(s)

ArchiveRaceSpec == ArchiveRaceInit /\ [][ArchiveRaceNext]_vars

(***************************************************************************)
(* Functions applied on their own.  PureSpec applies one function of the   *)
(* pipeline to one input at a time and keeps the input and the result in   *)
(* probe; the store and the invocations stay as they are.                  *)
(***************************************************************************)
PipelineIdle == UNCHANGED <<store, jobRun, run, lastReq, nRuns, faults, summarizeCalls>>

\* no function is being applied
NoneApplied == probe.fn = "none"

Probe(fn, input, out) ==
    /\ probe' = [fn |-> fn, input |-> input, out |-> out]
    /\ PipelineIdle

\* every outcome of the HTTP request for a feed
AllResponses ==
    {NetworkError, Timeout, Http403, HtmlBody, BadXml,
     FeedBody(<<>>), FeedBody(<<I1, I2, I5>>), FeedBody(<<I4, I3>>)}

ApplyFetchFeed ==
    /\ NoneApplied
    /\ \E i \in 1..Len(FEED_SOURCES), response \in AllResponses :
            Probe("fetchFeed", [feed |-> FEED_SOURCES[i], response |-> response],
                  fetchFeed(FEED_SOURCES[i], response))

\* the sequences over `elems` of length 1..n
RECURSIVE SeqsUpTo(_, _)
SeqsUpTo(elems, n) ==
    IF n = 0 THEN {}
    ELSE LET shorter == SeqsUpTo(elems, n - 1)
         IN {<<e>> : e \in elems} \cup {Append(q, e) : q \in shorter, e \in elems}

\* a title of n characters
TitleOfLength(n) == [i \in 1..n |-> "x"]

\* partial articles: two that share an id under different titles, one whose title
\* just fits the fallback budget, one whose title exceeds it by one character
SamplePartials ==
    {[id |-> Sha16(<<"g", "1">>), title |-> <<"G", "a">>, link |-> <<"l", "1">>,
      pub_date |-> 11, source |-> "EIA", article_type |-> "policy"],
     [id |-> Sha16(<<"g", "1">>), title |-> <<"W", "i">>, link |-> <<"l", "4">>,
      pub_date |-> 14, source |-> "Yahoo", article_type |-> "policy"],
     [id |-> Sha16(<<"g", "6">>), title |-> TitleOfLength(FALLBACK_MAX), link |-> <<"l", "6">>,
      pub_date |-> 16, source |-> "EIA", article_type |-> "policy"],
     [id |-> Sha16(<<"g", "7">>), title |-> TitleOfLength(FALLBACK_MAX + 1),
      link |-> <<"l", "7">>, pub_date |-> 17, source |-> "EIA", article_type |-> "policy"]}

\* runIngestion, lines 447-488: the summaries of the new articles and the insert list
summarizeNew(allPartial, newArticles, enabled, succeeded) ==
    buildInserts(allPartial, newArticles,
                 SummaryMapOf(newArticles, IF enabled THEN succeeded ELSE {}))

\* the batches that leave step 1: no two articles with the same normalized title
DedupedBatches == {b \in SeqsUpTo(SamplePartials, MaxBatch) : batchDedup(b) = b}

ApplySummaries ==
    /\ NoneApplied
    /\ \E newArticles \in DedupedBatches, enabled \in BOOLEAN :
            \E succeeded \in IF enabled THEN SUBSET (1..Len(newArticles)) ELSE {{}} :
                Probe("summaries",
                      [newArticles |-> newArticles, enabled |-> enabled, succeeded |-> succeeded],
                      summarizeNew(newArticles, newArticles, enabled, succeeded))

\* titles: none, one or several keywords of one or several categories, upper and lower case
SampleTitles ==
    {<<>>,
     <<"w", "a", "s">>,
     <<"W", "i", "n", "d">>,
     <<"G", "r", "i", "d", " ", "w", "i", "n", "d">>,
     <<"c", "o", "2", " ", "A", "c", "t">>,
     <<"f", "l", "n", "g">>,
     <<"h", "v", "d", "c", " ", "l", "n", "g">>,
     <<"f", "a", "r", "m", " ", "w", "i", "n", "d">>,
     <<"m", "i", "s", "o">>,
     <<"G", "r", "i", "d">>,
     <<"n", "e", "t", " ", "z", "e", "r", "o", " ", "a", "c", "t", " ", "a", "c", "t">>,
     <<"e", "n", "e", "r", "g", "y", " ", "A", "c", "t">>,
     <<"W", "i", "n", "d", " ", "c", "o", "2", " ", "g", "r", "i", "d", " ", "a", "c", "t">>}

\* contents: absent, empty, or carrying one keyword
SampleContents ==
    {Undefined,
     <<>>,
     <<"l", "n", "g">>,
     <<"c", "o", "2">>,
     <<"g", "r", "i", "d">>}

ApplyCategorize ==
    /\ NoneApplied
    /\ \E title \in SampleTitles, content \in SampleContents :
            Probe("categorizeArticle", [title |-> title, content |-> content],
                  categorizeArticle(title, content))

\* raw items: guid and link absent, blank, or present with and without surrounding
\* space; two titles, two dates, with and without a pubDate
SampleItems ==
    [guid : {NoText, <<" ">>, <<"g", "1">>, <<" ", "g", "1">>, <<"g", "2">>},
     link : {NoText, <<"l", "1">>, <<"l", "1", " ">>},
     title : {<<"G", "a">>, <<"S", "o">>},
     isoDate : {11, 12},
     pubDate : {NoText, <<"T">>}]

\* generateArticleId on two items, as two runs or two feeds present them
ApplyGenerateArticleId ==
    /\ NoneApplied
    /\ \E x \in SampleItems, y \in SampleItems :
            Probe("generateArticleId", <<x, y>>,
                  <<generateArticleId(x), generateArticleId(y)>>)

\* lines 360-420: the articles of the results in feed order, then step 1
stage1(results) == batchDedup(collectArticles(results))

\* what a feed can deliver: up to MaxBatch of the items I1 and I2 (same normalized
\* title) and I3
SampleFeedItems == {<<>>} \cup SeqsUpTo({I1, I2, I3}, MaxBatch)

ApplyBatchDedup ==
    /\ NoneApplied
    /\ \E first \in SampleFeedItems, second \in SampleFeedItems :
            LET feeds == getEnabledFeeds
                results == fetchAllFeeds(feeds, <<FeedBody(first), FeedBody(second)>>)
            IN Probe("batchDedup", results, stage1(results))

\* the page scraped: an article URL, http or https as scrapeArticleImage requires
SampleBaseUrl == <<"h", "t", "t", "p", "s", ":", "/", "/", "h", "/", "n", "/", "p">>

\* raw candidates: absolute, root-relative, protocol-relative and relative ones that
\* pass; a data URL, a non-http scheme, a skip pattern and a non-image that do not
SampleUrls ==
    {<<"h", "t", "t", "p", "s", ":", "/", "/", "c", "/", "a", ".", "j", "p", "g">>,
     <<"/", "i", "m", "g", "/", "b">>,
     <<"/", "/", "c", "/", "x", ".", "P", "N", "G">>,
     <<"t", ".", "w", "e", "b", "p">>,
     <<"d", "a", "t", "a", ":", "x", ".", "p", "n", "g">>,
     <<"f", "t", "p", ":", "/", "/", "c", "/", "a", ".", "p", "n", "g">>,
     <<"h", "t", "t", "p", "s", ":", "/", "/", "c", "/", "l", "o", "g", "o", ".", "p", "n", "g">>,
     <<"h", "t", "t", "p", "s", ":", "/", "/", "c", "/", "p", "a", "g", "e">>}

\* pages: up to MaxBatch candidates, each offered to one of the strategies, listed by
\* strategy (the order of candidates of different strategies makes no difference)
SamplePages ==
    {<<>>} \cup
    {page \in SeqsUpTo([strategy : 1..STRATEGIES, url : SampleUrls], MaxBatch) :
        \A i \in 1..(Len(page) - 1) : page[i].strategy <= page[i + 1].strategy}

ApplyExtractImage ==
    /\ NoneApplied
    /\ \E page \in SamplePages :
            Probe("extractImageFromHtml", [page |-> page, baseUrl |-> SampleBaseUrl],
                  extractImageFromHtml(page, SampleBaseUrl))

ProbeReset ==
    /\ probe.fn # "none"
    /\ probe' = NoProbe
    /\ PipelineIdle

PureInit ==
    /\ store = SeedStore(0)
    /\ jobRun = NoJobRun
    /\ run = [s \in Slots |-> IdleRun]
    /\ lastReq = NoRequest
    /\ nRuns = 0
    /\ faults = 0
    /\ probe = NoProbe
    /\ summarizeCalls = {}

PureNext ==
    \/ ApplyFetchFeed
    \/ ApplySummaries
    \/ ApplyCategorize
    \/ ApplyGenerateArticleId
    \/ ApplyBatchDedup
    \/ ApplyExtractImage
    \/ ProbeReset

PureSpec == PureInit /\ [][PureNext]_vars

(***************************************************************************)
(* Properties.                                                             *)
(***************************************************************************)
TerminalWrites(r) ==
    Cardinality({i \in 1..Len(r.writes) : r.writes[i] \in {"success", "error"}})

FinanceIds(st) == {id \in DOMAIN st : st[id].article_type = "finance"}

C2_EventuallyTerminal ==
    \A s \in Slots :
        (run[s].pc = "started") ~> (run[s].pc = "done" /\ TerminalWrites(run[s]) = 1)

C2_Witness ==
    \E s \in Slots :
        /\ run[s].pc = "done"
        /\ run[s].writes = <<"started", "error">>
        /\ run[s].errorMessage = "insertArticles threw"

\* C3 (as stated): every article handed to insertArticles is one of newArticles, the
\* survivors of the three dedup stages.
C3_OnlySurvivorsInserted ==
    \A s \in Slots :
        run[s].pc = "insert" =>
            \A i \in 1..Len(run[s].allArticles) :
                \E j \in 1..Len(run[s].newArticles) :
                    /\ run[s].newArticles[j].id = run[s].allArticles[i].id
                    /\ run[s].newArticles[j].title = run[s].allArticles[i].title

\* a run without fetch or store failure that follows another such run
SecondCleanRun(r) == r.clean /\ r.prev.has /\ r.prev.clean

\* C4 (as stated): the second of two failure-free runs inserts nothing and counts as
\* duplicates the number of articles the first run inserted.
C4_DuplicatesEqualFirstInserted ==
    \A s \in Slots :
        (run[s].ingested /\ SecondCleanRun(run[s])) =>
            /\ run[s].stats.inserted = 0
            /\ run[s].stats.duplicates = run[s].prev.inserted

C4_SecondRunCounts ==
    \A s \in Slots :
        (run[s].ingested /\ SecondCleanRun(run[s])) =>
            /\ run[s].stats.inserted = 0
            /\ run[s].stats.duplicates = run[s].prev.inserted + run[s].prev.duplicates

C4_SecondRunKeepsStore ==
    \A s \in Slots :
        (run[s].pc = "insert" /\ SecondCleanRun(run[s]) /\ run'[s].ingested /\ run'[s].clean)
            => store' = store

\* C4 (amended): the second of two failure-free runs over the same feed items inserts
\* nothing, counts as duplicates every article the first run submitted (its inserted
\* plus its duplicates), and leaves the store as the first run left it.
C4_Idempotent == []C4_SecondRunCounts /\ [][C4_SecondRunKeepsStore]_vars

C4_Witness ==
    \E s \in Slots :
        /\ run[s].ingested /\ SecondCleanRun(run[s])
        /\ run[s].prev.inserted > 0
        /\ run[s].prev.duplicates > 0
        /\ run[s].stats.duplicates = run[s].prev.inserted + run[s].prev.duplicates

\* C5: the insert of an ingestion run leaves every stored row as it is, field by
\* field, and creates rows only for submitted ids that were absent.
C5_InsertNeverOverwrites ==
    [][\A s \in Slots :
        run[s].pc = "insert" =>
            /\ \A id \in DOMAIN store : id \in DOMAIN store' /\ store'[id] = store[id]
            /\ \A id \in DOMAIN store' \ DOMAIN store :
                \E i \in 1..Len(run[s].allArticles) :
                    /\ run[s].allArticles[i].id = id
                    /\ store'[id] = RowOf(run[s].allArticles[i])]_vars

C5_Witness ==
    \E s \in Slots :
        /\ run[s].ingested
        /\ run[s].stats.attempted > 0
        /\ run[s].stats.inserted > 0
        /\ run[s].stats.duplicates > 0
        /\ SeedId(1) \in DOMAIN store
        /\ store[SeedId(1)] = SeedRow(1)

ArchiveStageOver(r) ==
    r.kind = "orchestrator" /\ r.pc \in {"invalidate", "success"}

ArchiverBound(r) ==
    /\ Cardinality(ActiveFinance(store)) = KEEP_FINANCE
    /\ r.financeArchived = r.activeAtRead - KEEP_FINANCE
    /\ \A a \in ActiveFinance(store) : \A b \in FinanceIds(store) \ ActiveFinance(store) :
            store[a].pub_date >= store[b].pub_date

C6_BoundAfterCleanStage ==
    \A s \in Slots :
        (ArchiveStageOver(run[s]) /\ run[s].archiveClean
                                  /\ run[s].activeAtRead >= KEEP_FINANCE)
            => ArchiverBound(run[s])

C6_RerunIsNoOp ==
    \A s \in Slots :
        (run[s].pc \in {"archive_recent", "archive_all", "archive_item"}
            /\ Cardinality(ActiveFinance(store)) <= KEEP_FINANCE)
            => store' = store

C7_ArchivingMonotone ==
    [][\A id \in DOMAIN store :
        /\ id \in DOMAIN store'
        /\ store[id].is_archived => store'[id].is_archived]_vars

C7_Witness ==
    /\ \E id \in DOMAIN store : store[id].is_archived
    /\ \E s \in Slots : run[s].ranAt = 2 /\ run[s].ingested /\ run[s].stats.inserted > 0

C8_SelectedWhileNull ==
    \A s \in Slots :
        \A i \in 1..Len(run[s].toEnrich) :
            /\ run[s].toEnrich[i] \in DOMAIN store
            /\ store[run[s].toEnrich[i]].image_url = Null

C8_SetOnce ==
    /\ \A id \in DOMAIN store' \ DOMAIN store : store'[id].image_url = Null
    /\ \A id \in DOMAIN store \cap DOMAIN store' :
        /\ store[id].image_url # Null => store'[id].image_url = store[id].image_url
        /\ store'[id].image_url # store[id].image_url =>
            \E s \in Slots :
                /\ run[s].pc \in {"enrich_item", "ei_item"}
                /\ id = Head(run[s].toEnrich)

\* C8: a row is created with a null imageUrl, only a successful enrichment of that row
\* sets it, a row is selected for enrichment only while its imageUrl is null, and a
\* non-null imageUrl never changes (invocations one at a time).
C8_ImageUrlSetOnce == []C8_SelectedWhileNull /\ [][C8_SetOnce]_vars

C8_Witness ==
    /\ \E id \in DOMAIN store : store[id].image_url = "u1"
    /\ \E s \in Slots : run[s].ranAt = 2 /\ run[s].imagesEnriched > 0

HeadersMatch(req) == req.cron = req.expected \/ req.auth = bearer(req.expected)

\* C9: a trigger is accepted only if x-cron-secret equals the secret or Authorization
\* equals `Bearer <secret>`; a request answered 401 matches neither, writes no JobRun
\* record and starts nothing.
C9_AcceptedOnlyWithSecret ==
    [][/\ nRuns' # nRuns => (HeadersMatch(lastReq') /\ lastReq'.status # 401)
       /\ lastReq'.status = 401 =>
            (~HeadersMatch(lastReq') /\ UNCHANGED <<store, jobRun, run, nRuns>>)]_vars

C9_Witness ==
    /\ lastReq.status = 401
    /\ lastReq.expected = Secret
    /\ lastReq.cron = "wrong"
    /\ lastReq.auth = "Bearer wrong"
    /\ nRuns = 1
    /\ jobRun.ran_at = 1

C10_OneResultPerFeed ==
    \A s \in Slots :
        run[s].fetchResults # <<>> =>
            LET r == run[s]
                feeds == getEnabledFeeds
            IN /\ Len(r.fetchResults) = Len(feeds)
               /\ \A i \in 1..Len(feeds) :
                    /\ r.fetchResults[i].source = feeds[i].name
                    /\ IF r.responses[i].kind = "rss"
                       THEN /\ r.fetchResults[i].error = Null
                            /\ r.fetchResults[i].items = r.responses[i].items
                            /\ \A k \in 1..Len(r.responses[i].items) :
                                LET item == r.responses[i].items[k]
                                IN (Trim(item.title) # NoText /\ Trim(item.link) # NoText) =>
                                    \E a \in Range(r.allPartial) :
                                        /\ a.id = generateArticleId(item)
                                        /\ a.source = feeds[i].name
                       ELSE /\ r.fetchResults[i].error # Null
                            /\ r.fetchResults[i].items = <<>>
                            /\ \A a \in Range(r.allPartial) : a.source # feeds[i].name
               /\ r.stats.totalSources = Len(feeds)
               /\ r.stats.successfulSources + r.stats.failedSources = r.stats.totalSources
               /\ r.stats.failedSources =
                    Cardinality({i \in 1..Len(feeds) : r.responses[i].kind # "rss"})

C10_FetchNeverFailsTheRun ==
    \A s \in Slots : run[s].pc = "fetch" => run'[s].pc \in {"fetch", "ids"}

\* C10: fetchAllFeeds yields one result per feed, each determined by that feed's own
\* response; a failed feed contributes an error and no items, every other feed's items
\* are returned and processed, the run goes on, and successful + failed = total.
C10_FeedFailuresIsolated == []C10_OneResultPerFeed /\ [][C10_FetchNeverFailsTheRun]_vars

C10_Witness ==
    \E s \in Slots :
        /\ run[s].pc = "ids"
        /\ run[s].responses[1].kind = "http"
        /\ run[s].responses[2].kind = "rss"
        /\ Len(run[s].allPartial) = 2
        /\ run[s].stats.successfulSources = 1
        /\ run[s].stats.failedSources = 1
        /\ run[s].stats.skipped = 0

\* C11: fetchFeed returns a result for every outcome of the request (network error,
\* timeout, non-2xx status, HTML body, unparsable body, valid feed), never an
\* exception, and a result with a non-null error has no items.
C11_FetchFeedNeverThrows ==
    probe.fn = "fetchFeed" =>
        LET response == probe.input.response
            result == probe.out
        IN /\ result.source = probe.input.feed.name
           /\ result.error # "rejected"
           /\ result.error # Null => result.items = <<>>
           /\ (result.error = Null) <=> (response.kind = "rss")
           /\ response.kind = "rss" => result.items = response.items

C11_Witness ==
    /\ probe.fn = "fetchFeed"
    /\ probe.input.response = BadXml
    /\ probe.out.error = "Parse error"
    /\ probe.out.items = <<>>

\* C12 (as stated): every new item whose text-generation call failed (or was not
\* made because the service is not configured) is in the insert list with a non-empty
\* summary of at most 200 characters that is the fallback of its own title: the title
\* itself up to 200 characters, else its first 197 characters followed by "...".
C12_FallbackFromOwnTitle ==
    probe.fn = "summaries" =>
        \A i \in 1..Len(probe.input.newArticles) :
            i \notin probe.input.succeeded =>
                LET a == probe.input.newArticles[i]
                    row == probe.out[i]
                IN /\ row.id = a.id /\ row.title = a.title
                   /\ row.summary # <<>>
                   /\ Len(row.summary) <= FALLBACK_MAX
                   /\ row.summary =
                        IF Len(a.title) <= FALLBACK_MAX THEN a.title
                        ELSE SubSeq(a.title, 1, FALLBACK_MAX - ELLIPSIS_LEN) \o <<".", ".", ".">>

\* the greatest score of the five categories for the combined text
MaxCategoryScore(title, content) ==
    LET scores == categoryScores(title, content)
    IN CHOOSE m \in {scores[i].score : i \in 1..Len(scores)} :
           \A i \in 1..Len(scores) : scores[i].score <= m

C14_IdPrecedence ==
    probe.fn = "generateArticleId" =>
        LET x == probe.input[1]
            y == probe.input[2]
            hasGuid(i) == Trim(i.guid) # NoText
            hasLink(i) == Trim(i.link) # NoText
        IN /\ hasGuid(x) => probe.out[1] = Sha16(Trim(x.guid))
           /\ ~hasGuid(x) /\ hasLink(x) => probe.out[1] = Sha16(Trim(x.link))
           /\ hasGuid(x) /\ hasGuid(y) /\ Trim(x.guid) = Trim(y.guid)
                => probe.out[1] = probe.out[2]
           /\ ~hasGuid(x) /\ ~hasGuid(y) /\ hasLink(x) /\ Trim(x.link) = Trim(y.link)
                => probe.out[1] = probe.out[2]
           /\ ~hasGuid(x) /\ ~hasGuid(y) /\ ~hasLink(x) /\ ~hasLink(y)
                => (probe.out[1] = probe.out[2]
                      <=> /\ x.title = y.title
                          /\ pubDateOrIsoDate(x) = pubDateOrIsoDate(y))

\* two items with the same guid up to surrounding space and different link, title and
\* date get the same id
C14_Witness ==
    /\ probe.fn = "generateArticleId"
    /\ probe.input[1].guid # probe.input[2].guid
    /\ Trim(probe.input[1].guid) = Trim(probe.input[2].guid)
    /\ Trim(probe.input[1].guid) # NoText
    /\ Trim(probe.input[1].link) # Trim(probe.input[2].link)
    /\ probe.input[1].title # probe.input[2].title
    /\ probe.input[1].isoDate # probe.input[2].isoDate
    /\ probe.out[1] = probe.out[2]

\* the positions <<feed, item>> of the items of a list of feed results
ItemPositions(results) ==
    {p \in (1..Len(results)) \X (1..MaxBatch) : p[2] <= Len(results[p[1]].items)}

\* feed order, then item order
Earlier(p, q) == p[1] < q[1] \/ (p[1] = q[1] /\ p[2] < q[2])

\* C15: of the items of a batch whose lower-cased, trimmed titles are equal exactly
\* one leaves stage 1, the first in feed order and then item order; items of distinct
\* normalized titles all leave it, in their order in the batch.
C15_FirstOccurrenceKept ==
    probe.fn = "batchDedup" =>
        LET results == probe.input
            out == probe.out
            P == ItemPositions(results)
            itemAt(p) == results[p[1]].items[p[2]]
            norm(p) == NormTitle(itemAt(p).title)
            first(t) == CHOOSE p \in P :
                            /\ norm(p) = t
                            /\ \A q \in P : norm(q) = t => ~Earlier(q, p)
            at(t) == {k \in 1..Len(out) : NormTitle(out[k].title) = t}
        IN /\ \A p \in P :
                /\ Cardinality(at(norm(p))) = 1
                /\ \A k \in at(norm(p)) :
                      /\ out[k].id = generateArticleId(itemAt(first(norm(p))))
                      /\ out[k].source = results[first(norm(p))[1]].source
           /\ \A k \in 1..Len(out) : \E p \in P : norm(p) = NormTitle(out[k].title)
           /\ \A k, l \in 1..Len(out) :
                k < l => Earlier(first(NormTitle(out[k].title)),
                                 first(NormTitle(out[l].title)))

\* a title that both feeds carry, in different case, survives once, from the first feed,
\* ahead of a distinct title that came before its second occurrence
C15_Witness ==
    /\ probe.fn = "batchDedup"
    /\ Len(probe.input[1].items) = 2 /\ Len(probe.input[2].items) = 2
    /\ probe.input[1].items[2] = I2 /\ probe.input[2].items[2] = I1
    /\ probe.input[1].items[1] = I3 /\ probe.input[2].items[1] = I3
    /\ Len(probe.out) = 2
    /\ probe.out[2].id = generateArticleId(I2)

\* the step of slot s that writes the batch and returns the ingestion result
InsertStep(s) == run[s].pc = "insert" /\ run'[s].pc = "enrich_select"

\* the submitted articles the store skips: the id is stored, or came earlier in the batch
SkippedAsDuplicate(all, st) ==
    {i \in 1..Len(all) :
        all[i].id \in DOMAIN st \/ \E j \in 1..(i - 1) : all[j].id = all[i].id}

\* C16: in every ingestion result inserted + duplicates + dbErrors = attempted.  When
\* the write succeeds, the articles not written are exactly those whose id exists, and
\* they are counted as duplicates, none as dbErrors, with no database error reported;
\* when the write fails nothing is written and every submitted article is counted in
\* dbErrors, none as duplicate, with a database error in errors.
C16_DuplicatesApartFromWriteFailures ==
    [][\A s \in Slots :
        InsertStep(s) =>
            LET all == run[s].allArticles
                result == run'[s].stats
                writeFailed == faults' # faults
                skipped == SkippedAsDuplicate(all, store)
            IN /\ result.attempted = Len(all)
               /\ result.inserted + result.duplicates + result.dbErrors = result.attempted
               /\ ~writeFailed =>
                    /\ \A i \in 1..Len(all) : all[i].id \in DOMAIN store'
                    /\ result.inserted = Cardinality(DOMAIN store' \ DOMAIN store)
                    /\ result.duplicates = Cardinality(skipped)
                    /\ result.dbErrors = 0
                    /\ result.errors = run[s].stats.errors
               /\ writeFailed =>
                    /\ store' = store
                    /\ result.inserted = 0
                    /\ result.duplicates = 0
                    /\ result.dbErrors = Len(all)
                    /\ result.errors = Append(run[s].stats.errors, "Database error")]_vars

\* after a run that inserted rows, a run whose write failed: its result counts the
\* whole batch as database errors and nothing as duplicate
C16_Witness ==
    \E s \in Slots :
        /\ run[s].prev.has /\ run[s].prev.inserted > 0
        /\ run[s].ingested /\ run[s].stats.dbErrors > 0 /\ run[s].stats.duplicates = 0
        /\ "Database error" \in Range(run[s].stats.errors)

\* C17: extractImageFromHtml returns the resolved candidate of the highest-priority
\* strategy that has a candidate resolving to an http(s) URL and passing the quality
\* filter; a strategy's candidate is returned only when no strategy before it has an
\* accepted candidate, and null is returned exactly when no strategy has one.
C17_OrderedCascade ==
    probe.fn = "extractImageFromHtml" =>
        LET page == probe.input.page
            baseUrl == probe.input.baseUrl
            accepted(k) == {i \in 1..Len(CandidatesOf(page, k)) :
                               Accepted(CandidatesOf(page, k)[i], baseUrl)}
            winners == {k \in 1..STRATEGIES : accepted(k) # {}}
        IN /\ (probe.out = Null) <=> (winners = {})
           /\ winners # {} =>
                LET k == CHOOSE w \in winners : \A v \in winners : w <= v
                    i == CHOOSE a \in accepted(k) : \A b \in accepted(k) : a <= b
                IN /\ probe.out = resolveImageUrl(CandidatesOf(page, k)[i], baseUrl)
                   /\ SchemeOf(probe.out) \in {<<"h", "t", "t", "p", ":">>, <<"h", "t", "t", "p", "s", ":">>}
                   /\ isLikelyGoodImage(probe.out)

\* a rejected candidate of a higher-priority strategy, and the relative candidate of a
\* lower-priority one returned resolved against the page
C17_Witness ==
    /\ probe.fn = "extractImageFromHtml"
    /\ Len(probe.input.page) = 2
    /\ probe.input.page[1].strategy < probe.input.page[2].strategy
    /\ probe.input.page[1].url = <<"h", "t", "t", "p", "s", ":", "/", "/", "c", "/", "l", "o", "g", "o", ".", "p", "n", "g">>
    /\ probe.input.page[2].url = <<"/", "i", "m", "g", "/", "b">>
    /\ probe.out = <<"h", "t", "t", "p", "s", ":", "/", "/", "h", "/", "i", "m", "g", "/", "b">>

\* the step of slot s that summarizes the new articles
SummarizeStep(s) == run[s].pc = "summarize" /\ run'[s].pc = "insert"

\* C18 (as stated): over ingestion runs executed one at a time (as all runs of Spec
\* are) the text-generation
\* service is called at most once for each article id, and never for an article whose
\* id is stored.
C18_SummarizedOncePerId ==
    [][\A s \in Slots :
        SummarizeStep(s) /\ run'[s].stats.summarizationAttempted > 0 =>
            LET called == run[s].newArticles
            IN /\ \A i, j \in 1..Len(called) : called[i].id = called[j].id => i = j
               /\ \A i \in 1..Len(called) :
                    /\ called[i].id \notin summarizeCalls
                    /\ called[i].id \notin DOMAIN store]_vars

\* the pcs of the ingestion and enrichment stages, of the archive stage's queries
IngestEnrichPcs ==
    {"fetch", "ids", "titles", "summarize", "insert", "enrich_select", "enrich_item"}

ArchiveQueryPcs == {"archive_recent", "archive_all"}

\* slot s takes a step in which an exception reaches the catch block of the task
Thrown(s) == run[s].pc # "catch" /\ run'[s].pc = "catch"

\* slot s takes a step in which a query of the archive stage fails or throws
ArchiveQueryFails(s) ==
    run[s].pc \in ArchiveQueryPcs /\ run'[s] # run[s] /\ faults' # faults

\* the step after an exception is the terminal write: status `error`, the message, and
\* the counts the task had accumulated; no stage is executed any more, and the task
\* returns whether or not the store accepted the write
ErrorIsRecorded(s) ==
    run[s].pc = "catch" /\ run'[s] # run[s] =>
        /\ run'[s].pc = "done"
        /\ run'[s].stages = run[s].stages
        /\ run'[s].writes = Append(run[s].writes, "error")
        /\ store' = store
        /\ \/ jobRun' = jobRun /\ faults' # faults
           \/ /\ jobRun'.status = "error"
              /\ jobRun'.ran_at = run[s].ranAt
              /\ jobRun'.error_message = run[s].errorMessage
              /\ jobRun'.error_message # Null
              /\ jobRun'.articles_inserted =
                    (IF run[s].ingested THEN run[s].stats.inserted ELSE 0)
              /\ jobRun'.articles_updated =
                    (IF run[s].ingested THEN run[s].stats.duplicates ELSE 0)
              /\ jobRun'.images_enriched = run[s].imagesEnriched

\* C19 (as stated): a failure of ingest, enrich or archive that is not handled per
\* item aborts the run: no later stage is executed, and the terminal write has status
\* `error` with the message and the counts accumulated before the failure.
C19_StageFailureAbortsRun ==
    /\ [][\A s \in Slots :
            Thrown(s) \/ ArchiveQueryFails(s) =>
                run'[s].pc = "catch" /\ run'[s].stages = run[s].stages]_vars
    /\ [][\A s \in Slots : ErrorIsRecorded(s)]_vars

\* C19 (amended): an exception thrown by ingest or enrich aborts the run: no later
\* stage is executed, the terminal write has status `error` with the message and the
\* inserted, duplicate and images-enriched counts accumulated so far, and the task
\* returns.  A failure of the archive stage outside its per-item loop (a failing query,
\* an exception) is caught inside the stage: the run goes on to cache invalidation and
\* its terminal write is `success`.  An error returned by the enrichment query is
\* logged and the run goes on to the archive stage.
C19_ThrownAbortsArchiveContinues ==
    /\ [][\A s \in Slots :
            /\ Thrown(s) =>
                /\ run[s].pc \in IngestEnrichPcs
                /\ run'[s].stages = run[s].stages
                /\ run'[s].errorMessage # Null
            /\ ErrorIsRecorded(s)
            /\ ArchiveQueryFails(s) =>
                /\ run'[s].pc = "invalidate"
                /\ run'[s].stages = Append(run[s].stages, "invalidate")
            /\ run[s].pc = "enrich_select" /\ run'[s] # run[s] /\ faults' # faults =>
                \/ Thrown(s)
                \/ run'[s].pc = "archive_recent"
            /\ run[s].pc \in {"invalidate", "success"} /\ run'[s] # run[s] =>
                run'[s].pc \in {"success", "done"}
            /\ run[s].pc = "success" /\ run'[s] # run[s] =>
                run'[s].writes = Append(run[s].writes, "success")]_vars
    /\ [](\A s \in Slots : run[s].pc = "catch" => run[s].errorMessage # Null)

\* ingestion inserted articles, the enrichment stage threw, and the row of the run says
\* `error` with the message and the inserted count
C19_Witness ==
    \E s \in Slots :
        /\ run[s].pc = "done"
        /\ run[s].stages = <<"ingest", "enrich">>
        /\ run[s].writes = <<"started", "error">>
        /\ jobRun.status = "error" /\ jobRun.ran_at = run[s].ranAt
        /\ jobRun.error_message # Null
        /\ jobRun.articles_inserted > 0

\* the rows written by ingestion: a seeded row has its image, a new row has none
AddedRows(st) == {id \in DOMAIN st : st[id].image_url = Null}

\* C20: when two runIngestion executions overlap, under every interleaving the store
\* has one row per article id, no row that exists is overwritten or removed, every
\* successful write leaves a row for each id it submitted and counts the ids that
\* were new to the store, and the insertedCounts of the two runs add up to the number
\* of rows added.
C20_OverlapNoDuplicateRows ==
    /\ [][\A id \in DOMAIN store : id \in DOMAIN store' /\ store'[id] = store[id]]_vars
    /\ [][\A s \in Slots :
            InsertStep(s) /\ faults' = faults =>
                LET ids == {a.id : a \in Range(run[s].allArticles)}
                IN /\ DOMAIN store' = DOMAIN store \cup ids
                   /\ run'[s].stats.inserted = Cardinality(ids \ DOMAIN store)]_vars
    /\ [](run["a"].stats.inserted + run["b"].stats.inserted
            = Cardinality(AddedRows(store)))

\* both runs found the same articles new and summarized them; the first write inserted
\* them, the second one inserted nothing and counted them as duplicates
C20_Witness ==
    /\ faults = 0
    /\ run["a"].pc = "enrich_select" /\ run["b"].pc = "enrich_select"
    /\ run["a"].stats.summarizationAttempted > 0
    /\ run["b"].stats.summarizationAttempted = run["a"].stats.summarizationAttempted
    /\ run["a"].stats.inserted + run["b"].stats.inserted > 0
    /\ run["a"].stats.inserted = 0 \/ run["b"].stats.inserted = 0
    /\ run["a"].stats.duplicates + run["b"].stats.duplicates > 0


\* the keywords of a pattern's list that occur in a text
KeywordsIn(text, list) == {i \in 1..Len(list) : Includes(ToLower(text), ToLower(list[i]))}

\* the score of a category when a keyword of the title counts twice and a keyword that
\* occurs only in the content counts once
TitleBiasedScore(title, content, patterns) ==
    LET body == IF content = Undefined THEN <<>> ELSE content
        strongT == KeywordsIn(title, patterns.strongKeywords)
        strongC == KeywordsIn(body, patterns.strongKeywords) \ strongT
        regularT == KeywordsIn(title, patterns.keywords)
        regularC == KeywordsIn(body, patterns.keywords) \ regularT
    IN 2 * STRONG_WEIGHT * Cardinality(strongT) + STRONG_WEIGHT * Cardinality(strongC)
       + 2 * KEYWORD_WEIGHT * Cardinality(regularT) + KEYWORD_WEIGHT * Cardinality(regularC)

\* every keyword found in the combined text is found in the title or in the content
\* (none is made up of the end of one part and the start of the next)
NoStraddle(title, content) ==
    LET body == IF content = Undefined THEN <<>> ELSE content
        text == categorizeText(title, content)
    IN \A i \in 1..Len(CATEGORY_PATTERNS) :
        /\ KeywordsIn(text, CATEGORY_PATTERNS[i].strongKeywords)
             = KeywordsIn(title, CATEGORY_PATTERNS[i].strongKeywords)
               \cup KeywordsIn(body, CATEGORY_PATTERNS[i].strongKeywords)
        /\ KeywordsIn(text, CATEGORY_PATTERNS[i].keywords)
             = KeywordsIn(title, CATEGORY_PATTERNS[i].keywords)
               \cup KeywordsIn(body, CATEGORY_PATTERNS[i].keywords)

\* C21: categorization counts the title twice: a keyword that occurs in the title adds
\* twice its weight (6 for a strong keyword, 2 for a regular one) to the score of its
\* category, the same keyword occurring only in the excerpt adds its weight once (3 or
\* 1), so that a category matched in the title wins over another category matched by
\* an equal keyword in the excerpt only.
C21_TitleCountsTwice ==
    (probe.fn = "categorizeArticle" /\ NoStraddle(probe.input.title, probe.input.content)) =>
        LET title == probe.input.title
            content == probe.input.content
            scores == categoryScores(title, content)
            biased == [i \in 1..Len(CATEGORY_PATTERNS) |->
                          TitleBiasedScore(title, content, CATEGORY_PATTERNS[i])]
        IN /\ \A i \in 1..Len(scores) : scores[i].score = biased[i]
           /\ \A i \in 1..Len(scores) :
                (/\ biased[i] > 0
                 /\ \A j \in 1..Len(scores) : j # i => biased[j] < biased[i])
                    => probe.out = CATEGORY_PATTERNS[i].category

\* the stages of a run in the order of the source
StageOrder == <<"ingest", "enrich", "archive", "invalidate">>

IsPrefix(p, q) == Len(p) <= Len(q) /\ SubSeq(q, 1, Len(p)) = p

\* the stages begun so far are the first stages of the order, each begun once
StagesArePrefix ==
    \A s \in Slots :
        run[s].kind \in {"orchestrator", "sync"} => IsPrefix(run[s].stages, StageOrder)

\* a stage is begun by a run that has not made its terminal write, and it is the
\* stage that follows the ones begun before
StageBeginsInTurn ==
    \A s \in Slots :
        (run'[s].stages # run[s].stages /\ run'[s].stages # <<>>) =>
            /\ Len(run[s].stages) < Len(StageOrder)
            /\ run'[s].stages = Append(run[s].stages, StageOrder[Len(run[s].stages) + 1])
            /\ TerminalWrites(run[s]) = 0
            /\ TerminalWrites(run'[s]) = 0

\* the terminal write begins no stage and ends the run
TerminalWriteIsLast ==
    \A s \in Slots :
        (run'[s].kind \in {"orchestrator", "sync"}
         /\ TerminalWrites(run'[s]) > TerminalWrites(run[s])) =>
            /\ run'[s].stages = run[s].stages
            /\ run[s].stages # <<>>
            /\ run'[s].pc = "done"

\* C22: in every orchestrator run (background or synchronous) the stages are executed
\* in the order ingest, enrich, archive, cache invalidation: a stage begins only after
\* the previous one has concluded, no stage runs more than once per run, and the
\* terminal JobRun write happens after the last executed stage.
C22_StagesInOrder ==
    /\ []StagesArePrefix
    /\ [][StageBeginsInTurn]_vars
    /\ [][TerminalWriteIsLast]_vars

\* a synchronous run that follows an earlier run has gone through the four stages and
\* made its terminal write
C22_Witness ==
    \E s \in Slots :
        /\ run[s].kind = "sync"
        /\ run[s].pc = "done"
        /\ run[s].stages = StageOrder
        /\ run[s].writes = <<"success">>
        /\ run[s].prev.has

\* the name under which the synchronous orchestrator lists a stage
TaskName(stage) ==
    CASE stage = "ingest" -> "ingestion"
      [] stage = "enrich" -> "images"
      [] stage = "archive" -> "archive"
      [] stage = "invalidate" -> "revalidate"

TaskNames(stages) == [i \in 1..Len(stages) |-> TaskName(stages[i])]

SyncStagePcs == {"s_images", "s_archive", "s_revalidate"}

\* a lower-priority stage is begun only at a reading of the clock within the budget
BegunWithinBudget ==
    \A s \in Slots :
        (run[s].kind = "sync" /\ run[s].pc \in SyncStagePcs
         /\ run'[s].stages # run[s].stages) =>
            run'[s].elapsed <= JOB_TIME_LIMIT_MS

\* a step that passes over a stage writes nothing
SkippedWritesNothing ==
    \A s \in Slots :
        (run[s].kind = "sync" /\ run[s].pc \in SyncStagePcs
         /\ run'[s].pc # run[s].pc /\ run'[s].stages = run[s].stages) =>
            /\ run'[s].elapsed > JOB_TIME_LIMIT_MS
            /\ store' = store
            /\ jobRun' = jobRun

\* the articles table is written by the insert of ingestion and by the loops of the
\* stages that were begun, by nothing else
WritesOnlyInBegunStages ==
    \A s \in Slots :
        (run[s].kind = "sync" /\ run[s].pc # "done" /\ store' # store) =>
            \/ run[s].pc = "insert"
            \/ run[s].pc = "s_image_item" /\ run[s].stages[Len(run[s].stages)] = "enrich"
            \/ run[s].pc = "s_archive_item" /\ run[s].stages[Len(run[s].stages)] = "archive"

\* a synchronous run that is over began with ingestion and made one write, its terminal
\* write
SyncOneTerminalWrite ==
    \A s \in Slots :
        LET r == run[s]
        IN r.kind = "sync" =>
            /\ r.pc # "s_begin" => (r.stages # <<>> /\ r.stages[1] = "ingest")
            /\ r.pc = "done" => (r.writes \in {<<"success">>, <<"error">>})
            /\ r.pc # "done" => r.writes = <<>>

\* C23 as stated: the synchronous run always ingests, begins a lower-priority stage only
\* within the 25-second budget, writes nothing in a stage it skips, and ends with
\* exactly one terminal JobRun write whose tasksCompleted lists exactly the stages
\* that were begun.
C23_TasksCompletedAreStagesBegun ==
    \A s \in Slots :
        (run[s].kind = "sync" /\ run[s].pc = "done") =>
            /\ run[s].writes \in {<<"success">>, <<"error">>}
            /\ run[s].tasksCompleted = TaskNames(run[s].stages)

\* the list of the 200 response: the stages begun, without a cache invalidation that
\* threw; the 500 response after a thrown exception has no list
ResponseLists ==
    \A s \in Slots :
        (run[s].kind = "sync" /\ run'[s].pc = "done" /\ run[s].pc # "done") =>
            \/ /\ run[s].pc = "s_success"
               /\ run'[s].writes = <<"success">>
               /\ run'[s].resp = 200
               /\ run'[s].tasksCompleted =
                    SeqFilter(TaskNames(run[s].stages),
                              {i \in 1..Len(run[s].stages) :
                                  run[s].stages[i] # "invalidate" \/ run[s].revalidated})
            \/ /\ run[s].pc = "catch"
               /\ run'[s].writes = <<"error">>
               /\ run'[s].resp = 500
               /\ run'[s].tasksCompleted = <<>>

\* C23 (amended): the synchronous run always ingests, begins a lower-priority stage
\* only within the 25-second budget, writes nothing in a stage it skips, and ends with
\* exactly one terminal JobRun write; after a success write the response's
\* tasksCompleted lists the stages begun except a cache invalidation that threw, and
\* after an exception the write is an error write and the response has no list.
C23_BudgetedStagesOneWrite ==
    /\ []SyncOneTerminalWrite
    /\ [][BegunWithinBudget]_vars
    /\ [][SkippedWritesNothing]_vars
    /\ [][WritesOnlyInBegunStages]_vars
    /\ [][ResponseLists]_vars

\* a run that ran out of time after its enrichment stage: archive and cache
\* invalidation were passed over
C23_Witness ==
    \E s \in Slots :
        /\ run[s].kind = "sync"
        /\ run[s].pc = "done"
        /\ run[s].stages = <<"ingest", "enrich">>
        /\ run[s].tasksCompleted = <<"ingestion", "images">>
        /\ run[s].writes = <<"success">>

\* the step that reports the archive stage as completed leaves at most 6 non-archived
\* finance articles, or as many as the stage found
ArchiveAllOrNone ==
    \A s \in Slots :
        (/\ run[s].kind = "sync"
         /\ "archive" \notin Range(run[s].tasksCompleted)
         /\ "archive" \in Range(run'[s].tasksCompleted)) =>
            LET left == Cardinality(ActiveFinance(store'))
            IN left <= KEEP_FINANCE \/ left = run[s].activeAtRead

\* an iteration of the enrichment loop counts an image exactly when it wrote one
EnrichedCountsWrites ==
    \A s \in Slots :
        (run[s].kind = "sync" /\ run[s].pc = "s_image_item") =>
            run'[s].imagesEnriched - run[s].imagesEnriched
                = Cardinality({id \in DOMAIN store : store'[id].image_url # store[id].image_url})

\* C24: when the time budget expires in the synchronous variant, work is skipped
\* rather than left half-done: whenever the archive stage is reported as completed the
\* finance segment holds at most 6 non-archived articles (the stage archives all the
\* articles beyond the 6 most recent or none of them), and images_enriched equals the
\* number of articles whose imageUrl was written in the run.
C24_NoHalfDoneWork ==
    /\ [][ArchiveAllOrNone]_vars
    /\ [][EnrichedCountsWrites]_vars

\* the query selects at most 15 articles, all without an image, and the counters are
\* at zero when the loop starts
BoundedSelection ==
    \A s \in Slots :
        (run[s].pc = "enrich_select" /\ run'[s].pc = "enrich_item") =>
            /\ Len(run'[s].toEnrich) <= ENRICH_LIMIT
            /\ Len(run'[s].toEnrich) = Cardinality(Range(run'[s].toEnrich))
            /\ \A i \in 1..Len(run'[s].toEnrich) : store[run'[s].toEnrich[i]].image_url = Null
            /\ run'[s].imagesEnriched = 0 /\ run'[s].imagesFailed = 0
            /\ store' = store

\* one iteration attempts the next selected article and counts it once: as enriched
\* when its imageUrl was written, as failed otherwise; the loop ends with the last
\* selected article
EachSelectedAttempted ==
    \A s \in Slots :
        run[s].pc = "enrich_item" =>
            LET written == {id \in DOMAIN store : store'[id].image_url # store[id].image_url}
            IN /\ written \subseteq {Head(run[s].toEnrich)}
               /\ run'[s].imagesEnriched = run[s].imagesEnriched + Cardinality(written)
               /\ run'[s].imagesFailed = run[s].imagesFailed + 1 - Cardinality(written)
               /\ IF Len(run[s].toEnrich) = 1
                  THEN run'[s].pc = "archive_recent"
                  ELSE /\ run'[s].pc = "enrich_item"
                       /\ run'[s].toEnrich = Tail(run[s].toEnrich)

\* the attempted and the remaining articles add up to a selection of at most 15
AttemptsBounded ==
    \A s \in Slots :
        run[s].pc \in {"enrich_item", "archive_recent"} =>
            run[s].imagesEnriched + run[s].imagesFailed + Len(run[s].toEnrich) <= ENRICH_LIMIT

\* C25: one enrichment stage attempts at most 15 articles, each with a null imageUrl
\* when selected; a failed scrape or a failed store update counts as a failure and the
\* remaining selected articles are still attempted, so that imagesEnriched +
\* imagesFailed is the number of selected articles and imagesEnriched the number of
\* imageUrl writes that succeeded.
C25_BoundedIsolatedEnrichment ==
    /\ []AttemptsBounded
    /\ [][BoundedSelection]_vars
    /\ [][EachSelectedAttempted]_vars

\* a stage over a backlog of more than 15: 15 attempted, some enriched, a scrape and an
\* update failed on the way, and an article without image is left for the next stage
C25_Witness ==
    /\ run["a"].pc = "archive_recent"
    /\ run["a"].imagesEnriched + run["a"].imagesFailed = ENRICH_LIMIT
    /\ run["a"].imagesEnriched > 0
    /\ run["a"].imagesFailed > 1
    /\ faults = 1
    /\ Cardinality(DOMAIN store) > ENRICH_LIMIT + 1
    /\ store[BacklogId(MaxBacklog)].image_url # Null

\* the content type of a feed descriptor: its tag, policy when it has none
FeedTypeOf(name) ==
    LET feed == CHOOSE f \in Range(FEED_SOURCES) : f.name = name
    IN IF feed.articleType = Undefined THEN "policy" ELSE feed.articleType

\* C26: every article persisted by ingestion carries the content type of the feed
\* descriptor it was fetched from: items of a feed tagged finance are stored with
\* article_type finance, items of a feed tagged policy or without a tag with
\* article_type policy.
C26_RowsCarryFeedType ==
    [][\A id \in DOMAIN store' \ DOMAIN store :
            store'[id].article_type = FeedTypeOf(store'[id].source)]_vars

\* C30: when no shared secret is configured (CRON_SECRET is unset), every trigger
\* request, whatever x-cron-secret and Authorization headers it carries, none
\* included, is rejected with 401 and starts no work.
C30_UnsetSecretRejectsAll ==
    [][(lastReq' # lastReq /\ lastReq' # NoRequest /\ lastReq'.expected = Undefined) =>
            /\ lastReq'.status = 401
            /\ UNCHANGED <<store, jobRun, run, nRuns>>]_vars

\* the non-archived finance articles published no earlier than article id, id aside
NoOlderActive(st, id) ==
    {x \in ActiveFinance(st) \ {id} : st[x].pub_date >= st[id].pub_date}

\* an article that is archived by a step has at least 6 non-archived finance articles
\* beside it that were published no earlier (so it is not among the 6 most recent
\* whichever way equal publish dates are ordered)
ArchivedOutsideTopSix ==
    \A id \in DOMAIN store :
        (~store[id].is_archived /\ store'[id].is_archived) =>
            Cardinality(NoOlderActive(store, id)) >= KEEP_FINANCE

\* C27: the archive stage never archives an article that, at the moment it is
\* archived, is among the 6 most recently published non-archived articles of the
\* finance segment, also when another run works on the store between the archiver's
\* read of the 6 most recent ids and its read of all non-archived ids.
C27_NeverArchivesTopSix == [][ArchivedOutsideTopSix]_vars

\* article i of the backlog is in the list an enrichment stage has just selected or is
\* working through
SelectedForEnrichment(i) == \E s \in Slots : BacklogId(i) \in Range(run[s].toEnrich)

WaitsForImage(i) ==
    BacklogId(i) \in DOMAIN store /\ store[BacklogId(i)].image_url = Null

\* C28: while orchestrator runs keep being triggered and no article arrives, every
\* stored article whose image_url is null is eventually selected by an enrichment
\* stage, also when the attempts for more recently published articles keep failing.
C28_NoStarvation ==
    \A i \in 0..(MaxBacklog + 1) : WaitsForImage(i) ~> SelectedForEnrichment(i)

AllConcluded == \A s \in Slots : Finished(run[s])

\* while the row says `started`, some accepted run has not concluded
StartedMeansRunning == jobRun.status = "started" => ~AllConcluded

\* once every accepted run has concluded, the row of an orchestrator run that was
\* accepted exists and says `success` or `error`
ConcludedMeansTerminal ==
    AllConcluded =>
        /\ jobRun # NoJobRun => jobRun.status \in {"success", "error"}
        /\ (\E s \in Slots : run[s].kind = "orchestrator") => jobRun # NoJobRun

\* C29: with heartbeat writes that succeed, and for every order in which the writes of
\* two overlapping runs reach the one job_runs row: whenever the row's status is
\* `started` some accepted run has not yet concluded, and once every accepted run has
\* concluded the row's status is `success` or `error`.
C29_HeartbeatNeverLeftStarted == StartedMeansRunning /\ ConcludedMeansTerminal

\* both runs were orchestrator runs, both have concluded, and the row holds the
\* terminal record of the run that was accepted first: it finished after the second
C29_Witness ==
    /\ AllConcluded
    /\ \A s \in Slots : run[s].kind = "orchestrator"
    /\ run["a"].ranAt < run["b"].ranAt
    /\ jobRun.ran_at = run["a"].ranAt
    /\ jobRun.status \in {"success", "error"}

=========================================================================
